---- MODULE Spec2Model ----
(***************************************************************************)
(* The transactional message-passing core of bento/benthos: the sync       *)
(* Source Wrapper (input.Reader), the sync Sink Wrappers (output.Writer    *)
(* and output.LineWriter), the Batcher and the bounded-concurrency sink.   *)
(***************************************************************************)
EXTENDS Integers, Sequences, FiniteSets, TLC

(* ------------------------------ bounds --------------------------------- *)
\* batches the source adapter can return from Read
MaxBatches == 2
\* adapter failures (non-nil, non-closed results) injected in one run
MaxFaults == 2
\* adapter failures injected into a Reader that nobody consumes from
MaxReconnectFaults == 4
\* cap of the Throttle's backoff level
ThrottleCap == 1
\* Transactions fed to the Batcher in one run
MaxTx == 3
\* parts fed to the Batcher in one run
MaxParts == 4
\* the count trigger of the Batcher's policy, when it has one
MaxCount == 2
\* most indices a BatchError marks as failed
MaxFailed == 2
\* largest max_in_flight a sink is configured with
MaxInFlight == 2
\* Transactions offered to a sink wrapper in one run
MaxPoolTx == 3
\* most pipeline constructors passed to WrapWithPipelines
MaxPipes == 3
\* Transactions sent into a wrapped output in one run
MaxWrapTx == 3
\* most parts of a message handed to a processor
MaxMsgParts == 2
\* processors a message runs through
MaxSteps == 2
\* operations applied to a message and its copy
MaxMsgOps == 4
\* environments created in one run, the global one included
MaxEnvs == 3
\* callers that call CloseAsync or Consume on one component at the same time
MaxCallers == 2
\* calls made on one component in all
MaxLifeCalls == 3
\* WaitForClose calls made on one wrapped output
MaxWaits == 2
\* partitions of the topic a KafkaBalanced reader consumes
MaxPartitions == 2
\* messages a KafkaBalanced reader reads
MaxKafkaMsgs == 4
\* schema ids a schemaRegistryDecoder is asked for
MaxSchemaIds == 2
\* seconds the clock of a schemaRegistryDecoder runs for
MaxTime == 3
\* getDecoder calls made on a schemaRegistryDecoder
MaxGets == 3
\* environment variables a test case can override
MaxEnvVars == 2
\* getConfs calls made on a ProcessorsProvider
MaxConfCalls == 2

(* --------------------------- error values ------------------------------ *)
Nil == "nil"
ErrNotConnected == "ErrNotConnected"
ErrTimeout == "ErrTimeout"
ErrTypeClosed == "ErrTypeClosed"
ErrOther == "err"

\* resolutions of a Transaction: none yet, nil, a plain error, or a BatchError
\* marking failed indices
ResNone == [kind |-> "none", err |-> Nil, failed |-> <<>>]
ResNil == [kind |-> "nil", err |-> Nil, failed |-> <<>>]
ResErr(e) == [kind |-> "err", err |-> e, failed |-> <<>>]
ResBatch(f) == [kind |-> "batch", err |-> Nil, failed |-> f]

NoMsg == 0

\* one step of Reader.loop as seen from outside: op is "Connect", "Read" or
\* "Ack" for a call of the adapter, "Retry" for a wait on connThrot, "Emit"
\* for a Transaction sent, "Resolved" for a response received, "Closed" for
\* close(r.transactions); arg is the batch, or the backoff level of the wait
Call(op, arg, err, skip) == [op |-> op, arg |-> arg, err |-> err, skip |-> skip]
Batches == 1..MaxBatches

VARIABLES
    \* ---- source adapter (reader.Type) ----
    srcRead,        \* number of batches Read has returned
    srcState,       \* "open" | "closing" | "closed" | "failed"
    \* ---- input.Reader ----
    rpc,            \* position of Reader.loop
    r_running, r_connected,
    r_msg, r_err,   \* msg, err locals of Reader.loop
    r_throt,        \* backoff level of r.connThrot
    r_closeChan,    \* TRUE once close(r.closeChan) ran
    r_transClosed,  \* TRUE once close(r.transactions) ran
    r_closedChan,   \* TRUE once close(r.closedChan) ran
    r_closer,       \* position of a Reader.CloseAsync call
    \* ---- sink adapter (writer.Type / io.WriteCloser) ----
    snkState,       \* "open" | "closing" | "closed"
    \* ---- output.Writer / output.LineWriter ----
    sinkType,       \* "Writer" | "LineWriter"
    wpc,            \* position of the sink's loop
    w_running, w_isConnected,
    w_started,      \* w.transactions != nil
    w_ts, w_err,    \* ts, err locals of the loop
    w_throt,        \* backoff level of throt
    w_closeChan, w_closedChan,
    w_closer,       \* position of a CloseAsync call on the sink
    \* ---- observations ----
    faults,         \* adapter failures injected so far
    emitted,        \* batches sent on r.transactions, in order
    received,       \* batches the sink received from its input channel
    responses,      \* batch -> number of responses sent for its Transaction
    writes,         \* <<batch, result>> of every adapter Write call, in order
    acks,           \* <<batch, err>> of every adapter Acknowledge call, in order
    calls,          \* what Reader.loop did so far, in order: see Call
    \* ---- output.Batcher ----
    b_count,        \* count trigger of the policy, 0 when there is none
    b_period,       \* TRUE when the policy has a period trigger
    b_pc,           \* position of Batcher.loop
    b_in,           \* number of parts of each Transaction fed so far, in order
    b_inClosed,     \* TRUE once the input channel is closed
    b_closeReq,     \* TRUE once Batcher.CloseAsync was called
    b_pending,      \* parts accumulated by the policy, each <<transaction, index>>
    b_pendingTrans, \* Transactions whose parts are pending, in arrival order
    b_out,          \* outbound Transactions emitted so far, in order
    b_resolved,     \* Transaction -> the resolutions delivered to it, in order
    b_last          \* the outbound Transaction being resolved and its resolution

\* a sink wrapper built from a max_in_flight setting, its loops and the
\* adapter's Write calls as calls that begin and return
VARIABLES
    p_limit,        \* conf.MaxInFlight
    p_kind,         \* "Writer" or "AsyncWriter", as the constructor selected
    p_started,      \* TRUE once Consume assigned the transaction channel
    p_pc,           \* loop -> "off", "recv", "got", "write", "respond", "done"
    p_ts,           \* loop -> the Transaction it holds, 0 for none
    p_next,         \* the next Transaction upstream offers on the channel
    p_inClosed,     \* TRUE once upstream closed the transaction channel
    p_closeChan,    \* TRUE once CloseAsync closed closeChan
    p_res           \* Transaction -> the response it got, "none" before

poolVars == <<p_limit, p_kind, p_started, p_pc, p_ts, p_next, p_inClosed,
              p_closeChan, p_res>>

\* an output wrapped with processing pipelines by WrapWithPipelines, and the
\* Transactions that flow through the stages it wired together
VARIABLES
    wp_k,           \* number of pipeline constructors passed, p1..pk
    wp_i,           \* iterations of the wrapping loop done so far
    wp_out,         \* the current `out`: 0 for the sink, j for the wrapper of pj
    wp_src,         \* stage -> the channel it consumes: "none", "input" or a pipe
    wp_state,       \* "idle", "wrapping", "failed", "wrapped" or "consuming"
    wp_hold,        \* pipe -> the Transaction it has processed and holds
    wp_sent,        \* Transactions the producer has sent so far
    wp_sunk         \* Transactions the sink received, in order

wrapVars == <<wp_k, wp_i, wp_out, wp_src, wp_state, wp_hold, wp_sent, wp_sunk>>

\* a message on its way through processors that can fail on it
VARIABLES
    pr_msg,         \* the parts of the message, each with its content and flag
    pr_live,        \* TRUE while the message is still in the pipeline
    pr_res,         \* the response sent back to the source: "none" or "ack"
    pr_steps,       \* processors applied so far
    pr_last         \* the last processor: did it fail, and the message it got

procVars == <<pr_msg, pr_live, pr_res, pr_steps, pr_last>>

\* a message and the copy made of it, each mutated on its own
VARIABLES
    m_bytes,        \* handle -> the bytes read through it (1 original, 2 copy)
    m_meta,         \* handle -> the value of its metadata key
    m_cache,        \* handle -> its cached structured view, NoView when empty
    m_copied,       \* "no", or the kind of copy made: "Copy" or "DeepCopy"
    m_shared,       \* TRUE while both handles read the same byte slice
    m_want,         \* handle -> the bytes and metadata last given to it
    m_last,         \* handle -> its last SetBytes or SetStructured, and the
                    \* kind of the write that one replaced
    m_raw,          \* TRUE once a byte slice was written in place
    m_ops           \* operations applied so far

msgVars == <<m_bytes, m_meta, m_cache, m_copied, m_shared, m_want, m_last,
             m_raw, m_ops>>

\* Bloblang environments and the function and method sets they point to
VARIABLES
    e_sets,         \* the sets allocated so far, each a set of names
    e_envs,         \* the environments: which set holds the functions of
                    \* each and which its methods (1 is the global one)
    e_act           \* the environment the last step registered on, 0 if none

envVars == <<e_sets, e_envs, e_act>>

\* one Reader, Writer or LineWriter and the callers of its CloseAsync and Consume
VARIABLES
    lc_kind,        \* "none", "Reader", "Writer" or "LineWriter"
    lc_running,     \* the running flag
    lc_closes,      \* how many times close(closeChan) was executed
    lc_adapter,     \* how many times the adapter's CloseAsync was called
    lc_loop,        \* the loop goroutine: "none", "running" or "exited"
    lc_loops,       \* how many loop goroutines were started
    lc_trans,       \* the transactions field: 0 for nil, else the channel
    lc_assigned,    \* the channels assigned to the transactions field, in order
    lc_call,        \* caller -> the call it is in and its position
    lc_rets,        \* the calls that returned, in order, with their results
    lc_calls        \* calls begun so far

lifeVars == <<lc_kind, lc_running, lc_closes, lc_adapter, lc_loop, lc_loops,
              lc_trans, lc_assigned, lc_call, lc_rets, lc_calls>>

\* the shutdown of an output wrapped with pipelines: layer j holds pipeline j
\* and, as its out, layer j + 1; the out of the last layer is the output itself
VARIABLES
    wc_k,           \* how many pipelines wrap the output, 0 when none is built
    wc_pipe,        \* j -> pipeline j: "running", "closing" or "closed"
    wc_go,          \* j -> the goroutine of layer j's CloseAsync: "none",
                    \* "waiting" in pipe.WaitForClose, or "done"
    wc_elapsed,     \* j -> TRUE once that wait ran for the maximum shutdown wait
    wc_at,          \* j -> what held when layer j called its out's CloseAsync
    wc_out,         \* the wrapped output: "running", "closing" or "closed"
    wc_wait         \* the results of WaitForClose on the outermost layer, each
                    \* with the state the output was in

closeVars == <<wc_k, wc_pipe, wc_go, wc_elapsed, wc_at, wc_out, wc_wait>>

\* a KafkaBalanced reader on one topic, driven by Read and Acknowledge
VARIABLES
    k_consumer,     \* TRUE while k.consumer is not nil
    k_offsets,      \* k.offsets: partition -> the offset last read, 0 for none
    k_marked,       \* partition -> the offset marked as consumed, 0 for none
    k_committed,    \* partition -> the offset committed, 0 for none
    k_next,         \* partition -> the offset of its next message
    k_msgs,         \* the messages read, in order, each with its partition,
                    \* its offset and how it was acknowledged
    k_acks          \* what the Acknowledge calls returned, in order

kafkaVars == <<k_consumer, k_offsets, k_marked, k_committed, k_next, k_msgs, k_acks>>

\* the decoder cache of a schemaRegistryDecoder, its purge goroutine, one
\* goroutine calling getDecoder and a caller of Close
VARIABLES
    sc_now,         \* time.Now().Unix()
    sc_schemas,     \* s.schemas: id -> whether it is cached and when last used
    sc_purge,       \* the purge goroutine: where it is in clearExpired, the
                    \* targets it still has to examine and its targetTime
    sc_get,         \* the getDecoder call: where it is and for which id
    sc_gets,        \* getDecoder calls begun so far
    sc_closed,      \* TRUE once Close ran
    sc_examined,    \* the ids the second pass examined, each with whether it
                    \* was still cached
    sc_removed      \* the entries the second pass deleted, each with its last
                    \* use at that moment and the targetTime

cacheVars == <<sc_now, sc_schemas, sc_purge, sc_get, sc_gets, sc_closed,
               sc_examined, sc_removed>>

\* the process environment and the config cache of a ProcessorsProvider
VARIABLES
    gc_env,         \* the process environment: variable -> value, or Unset
    gc_cached,      \* the keys of p.cachedConfigs
    gc_last,        \* the last getConfs call: its arguments, the environment
                    \* it found, whether it missed the cache and its error
    gc_calls        \* getConfs calls made so far

confVars == <<gc_env, gc_cached, gc_last, gc_calls>>

firstVars == <<wrapVars, procVars, msgVars, envVars>>
moreVars == <<lifeVars, closeVars, kafkaVars, cacheVars, confVars>>
auxVars == <<firstVars, moreVars>>

batcherVars == <<b_count, b_period, b_pc, b_in, b_inClosed, b_closeReq,
                 b_pending, b_pendingTrans, b_out, b_resolved, b_last>>
srcVars == <<srcRead, srcState>>
readerVars == <<rpc, r_running, r_connected, r_msg, r_err, r_throt,
                r_closeChan, r_transClosed, r_closedChan, r_closer>>
snkVars == <<snkState>>
writerVars == <<sinkType, wpc, w_running, w_isConnected, w_started, w_ts, w_err,
                w_throt, w_closeChan, w_closedChan, w_closer>>
obsVars == <<faults, emitted, received, responses, writes, acks, calls>>
pipeVars == <<srcVars, readerVars, snkVars, writerVars, obsVars>>
vars == <<pipeVars, batcherVars, poolVars, auxVars>>

\* everything but one of the separately built components
coreVars == <<pipeVars, batcherVars, poolVars>>
wrapRest == <<coreVars, procVars, msgVars, envVars, moreVars>>
procRest == <<coreVars, wrapVars, msgVars, envVars, moreVars>>
msgRest == <<coreVars, wrapVars, procVars, envVars, moreVars>>
envRest == <<coreVars, wrapVars, procVars, msgVars, moreVars>>
lifeRest == <<coreVars, firstVars, closeVars, kafkaVars, cacheVars, confVars>>
closeRest == <<coreVars, firstVars, lifeVars, kafkaVars, cacheVars, confVars>>
kafkaRest == <<coreVars, firstVars, lifeVars, closeVars, cacheVars, confVars>>
cacheRest == <<coreVars, firstVars, lifeVars, closeVars, kafkaVars, confVars>>
confRest == <<coreVars, firstVars, lifeVars, closeVars, kafkaVars, cacheVars>>

\* the steps of Reader.loop are recorded when the Reader is observed on its
\* own, with any consumer of its transaction channel downstream or with none
Log(steps) ==
    IF sinkType \in {"Consumer", "None"} THEN calls \o steps ELSE calls

\* no wrapped output is being built
WrapIdle ==
    /\ wp_k = 0
    /\ wp_i = 0
    /\ wp_out = 0
    /\ wp_src = <<>>
    /\ wp_state = "idle"
    /\ wp_hold = <<>>
    /\ wp_sent = 0
    /\ wp_sunk = <<>>

\* no message is being processed
ProcIdle ==
    /\ pr_msg = <<>>
    /\ pr_live = FALSE
    /\ pr_res = "none"
    /\ pr_steps = 0
    /\ pr_last = [failed |-> FALSE, before |-> <<>>]

\* no message is being mutated
MsgIdle ==
    /\ m_bytes = <<>>
    /\ m_meta = <<>>
    /\ m_cache = <<>>
    /\ m_copied = "idle"
    /\ m_shared = FALSE
    /\ m_want = <<>>
    /\ m_last = <<>>
    /\ m_raw = FALSE
    /\ m_ops = 0

\* no environment exists
EnvIdle ==
    /\ e_sets = <<>>
    /\ e_envs = <<>>
    /\ e_act = 0

\* no component is being called
LifeIdle ==
    /\ lc_kind = "none"
    /\ lc_running = 0
    /\ lc_closes = 0
    /\ lc_adapter = 0
    /\ lc_loop = "none"
    /\ lc_loops = 0
    /\ lc_trans = 0
    /\ lc_assigned = <<>>
    /\ lc_call = <<>>
    /\ lc_rets = <<>>
    /\ lc_calls = 0

\* no wrapped output is being shut down
CloseIdle ==
    /\ wc_k = 0
    /\ wc_pipe = <<>>
    /\ wc_go = <<>>
    /\ wc_elapsed = <<>>
    /\ wc_at = <<>>
    /\ wc_out = "running"
    /\ wc_wait = <<>>

\* no KafkaBalanced reader exists
KafkaIdle ==
    /\ k_consumer = FALSE
    /\ k_offsets = <<>>
    /\ k_marked = <<>>
    /\ k_committed = <<>>
    /\ k_next = <<>>
    /\ k_msgs = <<>>
    /\ k_acks = <<>>

\* no schemaRegistryDecoder exists
CacheIdle ==
    /\ sc_now = 0
    /\ sc_schemas = <<>>
    /\ sc_purge = [pc |-> "none", targets |-> {}, targetTime |-> 0, k |-> 0]
    /\ sc_get = [pc |-> "none", id |-> 0]
    /\ sc_gets = 0
    /\ sc_closed = FALSE
    /\ sc_examined = <<>>
    /\ sc_removed = <<>>

\* no ProcessorsProvider exists
ConfIdle ==
    /\ gc_env = <<>>
    /\ gc_cached = {}
    /\ gc_last = <<>>
    /\ gc_calls = 0

FirstIdle == WrapIdle /\ ProcIdle /\ MsgIdle /\ EnvIdle
MoreIdle == LifeIdle /\ CloseIdle /\ KafkaIdle /\ CacheIdle /\ ConfIdle
AuxIdle == FirstIdle /\ MoreIdle

(* ------------------------------ Throttle ------------------------------- *)
\* Retry() returns false when the shutdown signal has fired, true after the wait
ThrottleRetryOK(closeChan) == ~closeChan
\* the backoff level after a Retry() that waited: grows up to the cap
ThrottleGrow(level) == IF level < ThrottleCap THEN level + 1 ELSE level
\* Reset() collapses the backoff to its minimum
ThrottleReset == 0

(* --------------------------- source adapter ---------------------------- *)
\* a failure may be injected while the budget lasts
CanFault ==
    faults < (IF sinkType = "None" THEN MaxReconnectFaults ELSE MaxFaults)
Fault(e) == faults' = IF e \in {Nil, ErrTypeClosed} THEN faults ELSE faults + 1

\* results the source adapter's Connect can return
SrcConnectResults ==
    {ErrTypeClosed} \cup (IF srcState = "open" THEN {Nil} ELSE {})
                    \cup (IF CanFault THEN {ErrOther} ELSE {})

\* <<msg, err>> results the source adapter's Read can return
SrcReadResults ==
    {<<NoMsg, ErrTypeClosed>>}
    \cup (IF srcState = "open" /\ srcRead < MaxBatches
          THEN {<<srcRead + 1, Nil>>} ELSE {})
    \cup (IF CanFault
          THEN {<<NoMsg, ErrNotConnected>>, <<NoMsg, ErrTimeout>>,
                <<NoMsg, ErrOther>>, <<NoMsg, Nil>>}
          ELSE {})

\* the adapter's own shutdown completes some time after its CloseAsync
SrcCloses ==
    /\ srcState = "closing"
    /\ srcState' = "closed"
    /\ UNCHANGED <<srcRead, readerVars, snkVars, writerVars, obsVars>>
    /\ UNCHANGED <<batcherVars, poolVars, auxVars>>

\* the adapter's Close returns an error: its shutdown is never signalled, so
\* its WaitForClose keeps returning ErrTimeout
SrcCloseFails ==
    /\ srcState = "closing"
    /\ srcState' = "failed"
    /\ UNCHANGED <<srcRead, readerVars, snkVars, writerVars, obsVars>>
    /\ UNCHANGED <<batcherVars, poolVars, auxVars>>

(* ----------------------------- input.Reader ---------------------------- *)
\* `for atomic.LoadInt32(&r.running) == 1` at the head of the read loop
ReaderLoopHead == IF r_running = 1 THEN "read" ELSE "defer"

\* a loop that treats the closed error as one more failed read
ReaderAfterReadNoClosed(msg, err) ==
    IF err # Nil \/ msg = NoMsg THEN <<"throt_read", r_throt>>
    ELSE <<"emit", ThrottleReset>>

\* where the loop goes once msg, err are settled (the closed check, the
\* failed-read branch and the success branch); the first component is the
\* next position, the second the Throttle level
ReaderAfterRead(msg, err) ==
    IF err = ErrTypeClosed THEN <<"defer", r_throt>>
    ELSE IF err # Nil \/ msg = NoMsg THEN <<"throt_read", r_throt>>
    ELSE <<"emit", ThrottleReset>>

\* head of the reconnect loop: `for atomic.LoadInt32(&r.running) == 1`; when
\* it is left without a break the code falls through to the checks on err
ReaderReconnectHead(msg, err) ==
    IF r_running = 1 THEN <<"reconnect", r_throt>> ELSE ReaderAfterRead(msg, err)

\* the adapter answered a Read: it hands out the next batch or reports closed
SrcAnswersRead(res) ==
    /\ srcRead' = IF res[1] # NoMsg THEN res[1] ELSE srcRead
    /\ srcState' = IF res[2] = ErrTypeClosed /\ srcState # "failed"
                   THEN "closed" ELSE srcState
    /\ Fault(IF res = <<NoMsg, Nil>> THEN ErrOther ELSE res[2])

SrcAnswersConnect(e) ==
    /\ srcState' = IF e = ErrTypeClosed /\ srcState # "failed"
                   THEN "closed" ELSE srcState
    /\ Fault(e)
    /\ UNCHANGED srcRead

\* the initial connect loop
ReaderConnect ==
    /\ rpc = "connect"
    /\ \E e \in SrcConnectResults :
        /\ SrcAnswersConnect(e)
        /\ calls' = Log(<<Call("Connect", 0, e, FALSE)>>)
        /\ IF e = ErrTypeClosed
           THEN rpc' = "defer" /\ UNCHANGED <<r_throt, r_connected>>
           ELSE IF e # Nil
           THEN rpc' = "throt_connect" /\ UNCHANGED <<r_throt, r_connected>>
           ELSE /\ r_throt' = ThrottleReset
                /\ r_connected' = 1
                /\ rpc' = ReaderLoopHead
    /\ UNCHANGED <<r_running, r_msg, r_err, r_closeChan, r_transClosed,
                   r_closedChan, r_closer, snkVars, writerVars,
                   emitted, received, responses, writes, acks>>
    /\ UNCHANGED <<batcherVars, poolVars, auxVars>>

\* `if !r.connThrot.Retry() { return }` of the initial connect loop
ReaderConnectRetry ==
    /\ rpc = "throt_connect"
    /\ calls' = Log(<<Call("Retry", r_throt,
                        IF ThrottleRetryOK(r_closeChan) THEN Nil
                        ELSE ErrTypeClosed, FALSE)>>)
    /\ IF ThrottleRetryOK(r_closeChan)
       THEN rpc' = "connect" /\ r_throt' = ThrottleGrow(r_throt)
       ELSE rpc' = "defer" /\ UNCHANGED r_throt
    /\ UNCHANGED <<srcVars, r_running, r_connected, r_msg, r_err, r_closeChan,
                   r_transClosed, r_closedChan, r_closer, snkVars, writerVars,
                   faults, emitted, received, responses, writes, acks>>
    /\ UNCHANGED <<batcherVars, poolVars, auxVars>>

\* a Read whose not-connected result is handled like any other failed read
ReaderReadNoReconnect ==
    /\ rpc = "read"
    /\ \E res \in SrcReadResults :
        /\ SrcAnswersRead(res)
        /\ calls' = Log(<<Call("Read", res[1], res[2], FALSE)>>)
        /\ r_msg' = res[1]
        /\ r_err' = res[2]
        /\ UNCHANGED r_connected
        /\ rpc' = ReaderAfterRead(res[1], res[2])[1]
        /\ r_throt' = ReaderAfterRead(res[1], res[2])[2]
    /\ UNCHANGED <<r_running, r_closeChan, r_transClosed, r_closedChan,
                   r_closer, snkVars, writerVars,
                   emitted, received, responses, writes, acks>>
    /\ UNCHANGED <<batcherVars, poolVars, auxVars>>

\* `msg, err := r.reader.Read()` and the branch on ErrNotConnected
ReaderRead ==
    /\ rpc = "read"
    /\ \E res \in SrcReadResults :
        /\ SrcAnswersRead(res)
        /\ calls' = Log(<<Call("Read", res[1], res[2], FALSE)>>)
        /\ r_msg' = res[1]
        /\ r_err' = res[2]
        /\ IF res[2] = ErrNotConnected
           THEN /\ r_connected' = 0
                /\ rpc' = ReaderReconnectHead(res[1], res[2])[1]
                /\ r_throt' = ReaderReconnectHead(res[1], res[2])[2]
           ELSE /\ UNCHANGED r_connected
                /\ rpc' = ReaderAfterRead(res[1], res[2])[1]
                /\ r_throt' = ReaderAfterRead(res[1], res[2])[2]
    /\ UNCHANGED <<r_running, r_closeChan, r_transClosed, r_closedChan,
                   r_closer, snkVars, writerVars,
                   emitted, received, responses, writes, acks>>
    /\ UNCHANGED <<batcherVars, poolVars, auxVars>>

\* `if err = r.reader.Connect(); err != nil` inside the reconnect loop
ReaderReconnect ==
    /\ rpc = "reconnect"
    /\ \E e \in SrcConnectResults :
        /\ SrcAnswersConnect(e)
        /\ calls' = Log(<<Call("Connect", 0, e, FALSE)>>)
        /\ r_err' = e
        /\ rpc' = IF e = ErrTypeClosed THEN "defer"
                  ELSE IF e # Nil THEN "throt_reconnect"
                  ELSE "reread"
    /\ UNCHANGED <<r_running, r_connected, r_msg, r_throt, r_closeChan,
                   r_transClosed, r_closedChan, r_closer, snkVars, writerVars,
                   emitted, received, responses, writes, acks>>
    /\ UNCHANGED <<batcherVars, poolVars, auxVars>>

\* `if !r.connThrot.Retry() { return }` inside the reconnect loop
ReaderReconnectRetry ==
    /\ rpc = "throt_reconnect"
    /\ calls' = Log(<<Call("Retry", r_throt,
                        IF ThrottleRetryOK(r_closeChan) THEN Nil
                        ELSE ErrTypeClosed, FALSE)>>)
    /\ IF ThrottleRetryOK(r_closeChan)
       THEN /\ rpc' = IF r_running = 1 THEN "reconnect"
                      ELSE ReaderAfterRead(r_msg, r_err)[1]
            /\ r_throt' = ThrottleGrow(r_throt)
       ELSE rpc' = "defer" /\ UNCHANGED r_throt
    /\ UNCHANGED <<srcVars, r_running, r_connected, r_msg, r_err, r_closeChan,
                   r_transClosed, r_closedChan, r_closer, snkVars, writerVars,
                   faults, emitted, received, responses, writes, acks>>
    /\ UNCHANGED <<batcherVars, poolVars, auxVars>>

\* `else if msg, err = r.reader.Read(); err != types.ErrNotConnected`
ReaderReread ==
    /\ rpc = "reread"
    /\ \E res \in SrcReadResults :
        /\ SrcAnswersRead(res)
        /\ calls' = Log(<<Call("Read", res[1], res[2], FALSE)>>)
        /\ r_msg' = res[1]
        /\ r_err' = res[2]
        /\ IF res[2] # ErrNotConnected
           THEN /\ r_connected' = 1
                /\ rpc' = ReaderAfterRead(res[1], res[2])[1]
                /\ r_throt' = ThrottleReset
           ELSE /\ UNCHANGED r_connected
                /\ rpc' = ReaderReconnectHead(res[1], res[2])[1]
                /\ r_throt' = ReaderReconnectHead(res[1], res[2])[2]
    /\ UNCHANGED <<r_running, r_closeChan, r_transClosed, r_closedChan,
                   r_closer, snkVars, writerVars,
                   emitted, received, responses, writes, acks>>
    /\ UNCHANGED <<batcherVars, poolVars, auxVars>>

\* `if !r.connThrot.Retry() { return }; continue` after a failed read
ReaderReadRetry ==
    /\ rpc = "throt_read"
    /\ calls' = Log(<<Call("Retry", r_throt,
                        IF ThrottleRetryOK(r_closeChan) THEN Nil
                        ELSE ErrTypeClosed, FALSE)>>)
    /\ IF ThrottleRetryOK(r_closeChan)
       THEN rpc' = ReaderLoopHead /\ r_throt' = ThrottleGrow(r_throt)
       ELSE rpc' = "defer" /\ UNCHANGED r_throt
    /\ UNCHANGED <<srcVars, r_running, r_connected, r_msg, r_err, r_closeChan,
                   r_transClosed, r_closedChan, r_closer, snkVars, writerVars,
                   faults, emitted, received, responses, writes, acks>>
    /\ UNCHANGED <<batcherVars, poolVars, auxVars>>

\* an emit that goes back to reading without waiting for the resolution
ReaderEmitNoAwait ==
    /\ rpc = "emit"
    /\ rpc' = ReaderLoopHead
    /\ emitted' = Append(emitted, r_msg)
    /\ calls' = Log(<<Call("Emit", r_msg, Nil, FALSE)>>)
    /\ UNCHANGED <<srcVars, r_running, r_connected, r_msg, r_err, r_throt,
                   r_closeChan, r_transClosed, r_closedChan, r_closer>>

\* the send half of `case r.transactions <- types.NewTransaction(msg, r.responses)`
ReaderEmit ==
    /\ rpc = "emit"
    /\ rpc' = "await"
    /\ emitted' = Append(emitted, r_msg)
    /\ calls' = Log(<<Call("Emit", r_msg, Nil, FALSE)>>)
    /\ UNCHANGED <<srcVars, r_running, r_connected, r_msg, r_err, r_throt,
                   r_closeChan, r_transClosed, r_closedChan, r_closer>>

\* `case <-r.closeChan: return` of the emitting select
ReaderEmitAbort ==
    /\ rpc = "emit"
    /\ r_closeChan
    /\ rpc' = "defer"
    /\ UNCHANGED <<srcVars, r_running, r_connected, r_msg, r_err, r_throt,
                   r_closeChan, r_transClosed, r_closedChan, r_closer,
                   snkVars, writerVars, obsVars>>
    /\ UNCHANGED <<batcherVars, poolVars, auxVars>>

\* the receive half of `case res, open := <-r.responses` and the Acknowledge
ReaderAwait(res) ==
    /\ rpc = "await"
    /\ acks' = IF res.err # Nil \/ ~res.skipAck
               THEN Append(acks, <<r_msg, res.err>>) ELSE acks
    /\ calls' = Log(<<Call("Resolved", r_msg, res.err, res.skipAck)>>
                     \o (IF res.err # Nil \/ ~res.skipAck
                         THEN <<Call("Ack", r_msg, res.err, FALSE)>>
                         ELSE <<>>))
    /\ rpc' = ReaderLoopHead
    /\ UNCHANGED <<srcVars, r_running, r_connected, r_msg, r_err, r_throt,
                   r_closeChan, r_transClosed, r_closedChan, r_closer>>

\* `case <-r.closeChan: return` of the awaiting select
ReaderAwaitAbort ==
    /\ rpc = "await"
    /\ r_closeChan
    /\ rpc' = "defer"
    /\ UNCHANGED <<srcVars, r_running, r_connected, r_msg, r_err, r_throt,
                   r_closeChan, r_transClosed, r_closedChan, r_closer,
                   snkVars, writerVars, obsVars>>
    /\ UNCHANGED <<batcherVars, poolVars, auxVars>>

\* the deferred shutdown: wait for the adapter, then close both channels
ReaderDefer ==
    /\ rpc = "defer"
    /\ srcState = "closed"
    /\ r_connected' = 0
    /\ r_transClosed' = TRUE
    /\ r_closedChan' = TRUE
    /\ rpc' = "done"
    /\ calls' = Log(<<Call("Closed", 0, Nil, FALSE)>>)
    /\ UNCHANGED <<srcVars, r_running, r_msg, r_err, r_throt, r_closeChan,
                   r_closer, snkVars, writerVars,
                   faults, emitted, received, responses, writes, acks>>
    /\ UNCHANGED <<batcherVars, poolVars, auxVars>>

\* Reader.CloseAsync: the compare-and-swap, the adapter's CloseAsync, the close
ReaderCloseAsync ==
    /\ \/ /\ r_closer = "idle"
          /\ IF r_running = 1
             THEN r_running' = 0 /\ r_closer' = "adapter"
             ELSE r_closer' = "returned" /\ UNCHANGED r_running
          /\ UNCHANGED <<srcVars, r_closeChan>>
       \/ /\ r_closer = "adapter"
          /\ srcState' = IF srcState = "open" THEN "closing" ELSE srcState
          /\ r_closer' = "chan"
          /\ UNCHANGED <<srcRead, r_running, r_closeChan>>
       \/ /\ r_closer = "chan"
          /\ r_closeChan' = TRUE
          /\ r_closer' = "returned"
          /\ UNCHANGED <<srcVars, r_running>>
    /\ UNCHANGED <<rpc, r_connected, r_msg, r_err, r_throt, r_transClosed,
                   r_closedChan, snkVars, writerVars, obsVars>>
    /\ UNCHANGED <<batcherVars, poolVars, auxVars>>

\* a WaitForClose that selects on closeChan, the shutdown signal, instead
ReaderWaitForCloseOnSignal == IF r_closeChan THEN Nil ELSE ErrTimeout

\* Reader.WaitForClose(timeout): nil once closedChan is closed, else ErrTimeout
ReaderWaitForClose == IF r_closedChan THEN Nil ELSE ErrTimeout

(* ---------------------------- sink adapter ----------------------------- *)
\* results the sink adapter's Connect can return
SnkConnectResults ==
    {ErrTypeClosed} \cup (IF snkState = "open" THEN {Nil} ELSE {})
                    \cup (IF CanFault THEN {ErrOther} ELSE {})

\* results the sink adapter's Write can return
SnkWriteResults ==
    {ErrTypeClosed} \cup (IF snkState = "open" THEN {Nil} ELSE {})
                    \cup (IF CanFault THEN {ErrNotConnected, ErrOther} ELSE {})

SnkAnswers(e) ==
    /\ snkState' = IF e = ErrTypeClosed THEN "closed" ELSE snkState
    /\ Fault(e)

\* the adapter's own shutdown completes some time after its CloseAsync
SnkCloses ==
    /\ snkState = "closing"
    /\ snkState' = "closed"
    /\ UNCHANGED <<srcVars, readerVars, writerVars, obsVars>>
    /\ UNCHANGED <<batcherVars, poolVars, auxVars>>

\* response.NewError(err): a response that never asks to skip the ack
NewError(err) == [err |-> err, skipAck |-> FALSE]

(* ---------------------------- output.Writer ---------------------------- *)
\* `for atomic.LoadInt32(&w.running) == 1` at the head of the receive loop
WriterLoopHead == IF w_running = 1 THEN "recv" ELSE "defer"

\* a Writer that gives up on any failed Write
WriterAfterWriteGivesUp(err) ==
    IF err # Nil THEN <<"defer", w_throt>>
    ELSE <<"respond", ThrottleReset>>

\* after the reconnect block: the closed check, the failed-send branch (which
\* waits on the Throttle) and the success branch (which resets it)
WriterAfterWrite(err) ==
    IF err = ErrTypeClosed THEN <<"defer", w_throt>>
    ELSE IF err # Nil THEN <<"throt_write", w_throt>>
    ELSE <<"respond", ThrottleReset>>

\* a Writer that never enters the reconnect loop
WriterReconnectHeadSkips(err) == WriterAfterWrite(err)

\* head of the reconnect loop; left without a break it falls through with err
WriterReconnectHead(err) ==
    IF w_running = 1 THEN <<"reconnect", w_throt>> ELSE WriterAfterWrite(err)

\* Consume: ErrAlreadyStarted when a channel is assigned, else start the loop
WriterConsume ==
    /\ sinkType = "Writer"
    /\ ~w_started
    /\ w_started' = TRUE
    /\ wpc' = "connect"
    /\ UNCHANGED <<srcVars, readerVars, snkVars, sinkType, w_running,
                   w_isConnected, w_ts, w_err, w_throt, w_closeChan,
                   w_closedChan, w_closer, obsVars>>
    /\ UNCHANGED <<batcherVars, poolVars, auxVars>>

\* the initial connect loop
WriterConnect ==
    /\ sinkType = "Writer"
    /\ wpc = "connect"
    /\ \E e \in SnkConnectResults :
        /\ SnkAnswers(e)
        /\ IF e = ErrTypeClosed
           THEN wpc' = "defer" /\ UNCHANGED w_isConnected
           ELSE IF e # Nil
           THEN wpc' = "throt_connect" /\ UNCHANGED w_isConnected
           ELSE w_isConnected' = 1 /\ wpc' = WriterLoopHead
    /\ UNCHANGED <<srcVars, readerVars, sinkType, w_running, w_started, w_ts,
                   w_err, w_throt, w_closeChan, w_closedChan, w_closer,
                   emitted, received, responses, writes, acks, calls>>
    /\ UNCHANGED <<batcherVars, poolVars, auxVars>>

\* `if !throt.Retry() { return }` of the initial connect loop
WriterConnectRetry ==
    /\ sinkType = "Writer"
    /\ wpc = "throt_connect"
    /\ IF ThrottleRetryOK(w_closeChan)
       THEN wpc' = "connect" /\ w_throt' = ThrottleGrow(w_throt)
       ELSE wpc' = "defer" /\ UNCHANGED w_throt
    /\ UNCHANGED <<srcVars, readerVars, snkVars, sinkType, w_running,
                   w_isConnected, w_started, w_ts, w_err, w_closeChan,
                   w_closedChan, w_closer, obsVars>>
    /\ UNCHANGED <<batcherVars, poolVars, auxVars>>

\* a Writer whose ts is assigned only once: later receives keep the first one
WriterRecvStaleTs(ts) ==
    /\ sinkType = "Writer"
    /\ wpc = "recv"
    /\ w_ts' = IF w_ts = NoMsg THEN ts ELSE w_ts
    /\ received' = received \cup {ts}
    /\ wpc' = "write"
    /\ UNCHANGED <<snkVars, sinkType, w_running, w_isConnected, w_started,
                   w_err, w_throt, w_closeChan, w_closedChan, w_closer>>

\* the receive half of `case ts, open = <-w.transactions` with open true
WriterRecv(ts) ==
    /\ sinkType = "Writer"
    /\ wpc = "recv"
    /\ w_ts' = ts
    /\ received' = received \cup {ts}
    /\ wpc' = "write"
    /\ UNCHANGED <<snkVars, sinkType, w_running, w_isConnected, w_started,
                   w_err, w_throt, w_closeChan, w_closedChan, w_closer>>

\* `if !open { return }`: the input channel was closed
WriterRecvClosed ==
    /\ sinkType = "Writer"
    /\ wpc = "recv"
    /\ r_transClosed
    /\ wpc' = "defer"
    /\ UNCHANGED <<srcVars, readerVars, snkVars, sinkType, w_running,
                   w_isConnected, w_started, w_ts, w_err, w_throt, w_closeChan,
                   w_closedChan, w_closer, obsVars>>
    /\ UNCHANGED <<batcherVars, poolVars, auxVars>>

\* `case <-w.closeChan: return` of the receiving select
WriterRecvAbort ==
    /\ sinkType = "Writer"
    /\ wpc = "recv"
    /\ w_closeChan
    /\ wpc' = "defer"
    /\ UNCHANGED <<srcVars, readerVars, snkVars, sinkType, w_running,
                   w_isConnected, w_started, w_ts, w_err, w_throt, w_closeChan,
                   w_closedChan, w_closer, obsVars>>
    /\ UNCHANGED <<batcherVars, poolVars, auxVars>>

\* `err := w.writer.Write(ts.Payload)` and the branch on ErrNotConnected
WriterWrite ==
    /\ sinkType = "Writer"
    /\ wpc = "write"
    /\ \E e \in SnkWriteResults :
        /\ SnkAnswers(e)
        /\ writes' = Append(writes, <<w_ts, e>>)
        /\ w_err' = e
        /\ IF e = ErrNotConnected
           THEN /\ w_isConnected' = 0
                /\ wpc' = WriterReconnectHead(e)[1]
                /\ w_throt' = WriterReconnectHead(e)[2]
           ELSE /\ UNCHANGED w_isConnected
                /\ wpc' = WriterAfterWrite(e)[1]
                /\ w_throt' = WriterAfterWrite(e)[2]
    /\ UNCHANGED <<srcVars, readerVars, sinkType, w_running, w_started, w_ts,
                   w_closeChan, w_closedChan, w_closer,
                   emitted, received, responses, acks, calls>>
    /\ UNCHANGED <<batcherVars, poolVars, auxVars>>

\* `if err = w.writer.Connect(); err != nil` inside the reconnect loop
WriterReconnect ==
    /\ sinkType = "Writer"
    /\ wpc = "reconnect"
    /\ \E e \in SnkConnectResults :
        /\ SnkAnswers(e)
        /\ w_err' = e
        /\ wpc' = IF e = ErrTypeClosed THEN "defer"
                  ELSE IF e # Nil THEN "throt_reconnect"
                  ELSE "rewrite"
    /\ UNCHANGED <<srcVars, readerVars, sinkType, w_running, w_isConnected,
                   w_started, w_ts, w_throt, w_closeChan, w_closedChan,
                   w_closer, emitted, received, responses, writes, acks, calls>>
    /\ UNCHANGED <<batcherVars, poolVars, auxVars>>

\* `if !throt.Retry() { return }` after a failed reconnect
WriterReconnectRetry ==
    /\ sinkType = "Writer"
    /\ wpc = "throt_reconnect"
    /\ IF ThrottleRetryOK(w_closeChan)
       THEN /\ wpc' = WriterReconnectHead(w_err)[1]
            /\ w_throt' = ThrottleGrow(w_throt)
       ELSE wpc' = "defer" /\ UNCHANGED w_throt
    /\ UNCHANGED <<srcVars, readerVars, snkVars, sinkType, w_running,
                   w_isConnected, w_started, w_ts, w_err, w_closeChan,
                   w_closedChan, w_closer, obsVars>>
    /\ UNCHANGED <<batcherVars, poolVars, auxVars>>

\* `else if err = w.writer.Write(ts.Payload); err != types.ErrNotConnected`
WriterRewrite ==
    /\ sinkType = "Writer"
    /\ wpc = "rewrite"
    /\ \E e \in SnkWriteResults :
        /\ SnkAnswers(e)
        /\ writes' = Append(writes, <<w_ts, e>>)
        /\ w_err' = e
        /\ IF e # ErrNotConnected
           THEN /\ w_isConnected' = 1
                /\ wpc' = WriterAfterWrite(e)[1]
                /\ w_throt' = WriterAfterWrite(e)[2]
           ELSE /\ wpc' = "throt_rewrite"
                /\ UNCHANGED <<w_isConnected, w_throt>>
    /\ UNCHANGED <<srcVars, readerVars, sinkType, w_running, w_started, w_ts,
                   w_closeChan, w_closedChan, w_closer,
                   emitted, received, responses, acks, calls>>
    /\ UNCHANGED <<batcherVars, poolVars, auxVars>>

\* `else if !throt.Retry() { return }` after a retried Write was not connected
WriterRewriteRetry ==
    /\ sinkType = "Writer"
    /\ wpc = "throt_rewrite"
    /\ IF ThrottleRetryOK(w_closeChan)
       THEN /\ wpc' = WriterReconnectHead(w_err)[1]
            /\ w_throt' = ThrottleGrow(w_throt)
       ELSE wpc' = "defer" /\ UNCHANGED w_throt
    /\ UNCHANGED <<srcVars, readerVars, snkVars, sinkType, w_running,
                   w_isConnected, w_started, w_ts, w_err, w_closeChan,
                   w_closedChan, w_closer, obsVars>>
    /\ UNCHANGED <<batcherVars, poolVars, auxVars>>

\* `if !throt.Retry() { return }` after a failed send
WriterWriteRetry ==
    /\ sinkType = "Writer"
    /\ wpc = "throt_write"
    /\ IF ThrottleRetryOK(w_closeChan)
       THEN wpc' = "respond" /\ w_throt' = ThrottleGrow(w_throt)
       ELSE wpc' = "defer" /\ UNCHANGED w_throt
    /\ UNCHANGED <<srcVars, readerVars, snkVars, sinkType, w_running,
                   w_isConnected, w_started, w_ts, w_err, w_closeChan,
                   w_closedChan, w_closer, obsVars>>
    /\ UNCHANGED <<batcherVars, poolVars, auxVars>>

\* a Writer that reports success whatever Write returned
WriterResponseAlwaysNil == NewError(Nil)

\* the response the loop offers on ts.ResponseChan
WriterResponse == NewError(w_err)

\* the send half of `case ts.ResponseChan <- response.NewError(err)`
WriterRespond ==
    /\ sinkType = "Writer"
    /\ wpc = "respond"
    /\ responses' = [responses EXCEPT ![w_ts] = @ + 1]
    /\ wpc' = WriterLoopHead
    /\ UNCHANGED <<snkVars, sinkType, w_running, w_isConnected, w_started,
                   w_ts, w_err, w_throt, w_closeChan, w_closedChan, w_closer>>

\* `case <-w.closeChan: return` of the responding select
WriterRespondAbort ==
    /\ sinkType = "Writer"
    /\ wpc = "respond"
    /\ w_closeChan
    /\ wpc' = "defer"
    /\ UNCHANGED <<srcVars, readerVars, snkVars, sinkType, w_running,
                   w_isConnected, w_started, w_ts, w_err, w_throt, w_closeChan,
                   w_closedChan, w_closer, obsVars>>
    /\ UNCHANGED <<batcherVars, poolVars, auxVars>>

\* the deferred shutdown: wait for the adapter, then close closedChan
WriterDefer ==
    /\ sinkType = "Writer"
    /\ wpc = "defer"
    /\ snkState = "closed"
    /\ w_isConnected' = 0
    /\ w_closedChan' = TRUE
    /\ wpc' = "done"
    /\ UNCHANGED <<srcVars, readerVars, snkVars, sinkType, w_running,
                   w_started, w_ts, w_err, w_throt, w_closeChan, w_closer,
                   obsVars>>
    /\ UNCHANGED <<batcherVars, poolVars, auxVars>>

\* Writer.CloseAsync: the compare-and-swap, the adapter's CloseAsync, the close
WriterCloseAsync ==
    /\ sinkType = "Writer"
    /\ \/ /\ w_closer = "idle"
          /\ IF w_running = 1
             THEN w_running' = 0 /\ w_closer' = "adapter"
             ELSE w_closer' = "returned" /\ UNCHANGED w_running
          /\ UNCHANGED <<snkVars, w_closeChan>>
       \/ /\ w_closer = "adapter"
          /\ snkState' = IF snkState = "open" THEN "closing" ELSE snkState
          /\ w_closer' = "chan"
          /\ UNCHANGED <<w_running, w_closeChan>>
       \/ /\ w_closer = "chan"
          /\ w_closeChan' = TRUE
          /\ w_closer' = "returned"
          /\ UNCHANGED <<snkVars, w_running>>
    /\ UNCHANGED <<srcVars, readerVars, sinkType, wpc, w_isConnected,
                   w_started, w_ts, w_err, w_throt, w_closedChan, obsVars>>
    /\ UNCHANGED <<batcherVars, poolVars, auxVars>>

\* Writer.WaitForClose(timeout): nil once closedChan is closed, else ErrTimeout
WriterWaitForClose == IF w_closedChan THEN Nil ELSE ErrTimeout

(* -------------------------- output.LineWriter -------------------------- *)
\* LineWriter.WaitForClose(timeout): nil once closedChan is closed
LineWriterWaitForClose == IF w_closedChan THEN Nil ELSE ErrTimeout

\* `for atomic.LoadInt32(&w.running) == 1` at the head of the loop
LineWriterLoopHead == IF w_running = 1 THEN "recv" ELSE "defer"

\* results of fmt.Fprintf on the handle
FprintfResults == {Nil} \cup (IF CanFault THEN {ErrOther} ELSE {})

\* Consume: ErrAlreadyStarted when a channel is assigned, else start the loop
LineWriterConsume ==
    /\ sinkType = "LineWriter"
    /\ ~w_started
    /\ w_started' = TRUE
    /\ wpc' = LineWriterLoopHead
    /\ UNCHANGED <<srcVars, readerVars, snkVars, sinkType, w_running,
                   w_isConnected, w_ts, w_err, w_throt, w_closeChan,
                   w_closedChan, w_closer, obsVars>>
    /\ UNCHANGED <<batcherVars, poolVars, auxVars>>

\* the receive half of `case ts, open = <-w.transactions` with open true
LineWriterRecv(ts) ==
    /\ sinkType = "LineWriter"
    /\ wpc = "recv"
    /\ w_ts' = ts
    /\ received' = received \cup {ts}
    /\ wpc' = "write"
    /\ UNCHANGED <<snkVars, sinkType, w_running, w_isConnected, w_started,
                   w_err, w_throt, w_closeChan, w_closedChan, w_closer>>

\* `if !open { return }` and `case <-w.closeChan: return` of the receiving select
LineWriterRecvReturn ==
    /\ sinkType = "LineWriter"
    /\ wpc = "recv"
    /\ r_transClosed \/ w_closeChan
    /\ wpc' = "defer"
    /\ UNCHANGED <<srcVars, readerVars, snkVars, sinkType, w_running,
                   w_isConnected, w_started, w_ts, w_err, w_throt, w_closeChan,
                   w_closedChan, w_closer, obsVars>>
    /\ UNCHANGED <<batcherVars, poolVars, auxVars>>

\* `_, err = fmt.Fprintf(w.handle, ...)`
LineWriterWrite ==
    /\ sinkType = "LineWriter"
    /\ wpc = "write"
    /\ \E e \in FprintfResults :
        /\ Fault(e)
        /\ writes' = Append(writes, <<w_ts, e>>)
        /\ w_err' = e
    /\ wpc' = "respond"
    /\ UNCHANGED <<srcVars, readerVars, snkVars, sinkType, w_running,
                   w_isConnected, w_started, w_ts, w_throt, w_closeChan,
                   w_closedChan, w_closer, emitted, received, responses, acks, calls>>
    /\ UNCHANGED <<batcherVars, poolVars, auxVars>>

\* the response the loop offers on ts.ResponseChan
LineWriterResponse == NewError(w_err)

\* the send half of `case ts.ResponseChan <- response.NewError(err)`
LineWriterRespond ==
    /\ sinkType = "LineWriter"
    /\ wpc = "respond"
    /\ responses' = [responses EXCEPT ![w_ts] = @ + 1]
    /\ wpc' = LineWriterLoopHead
    /\ UNCHANGED <<snkVars, sinkType, w_running, w_isConnected, w_started,
                   w_ts, w_err, w_throt, w_closeChan, w_closedChan, w_closer>>

\* `case <-w.closeChan: return` of the responding select
LineWriterRespondAbort ==
    /\ sinkType = "LineWriter"
    /\ wpc = "respond"
    /\ w_closeChan
    /\ wpc' = "defer"
    /\ UNCHANGED <<srcVars, readerVars, snkVars, sinkType, w_running,
                   w_isConnected, w_started, w_ts, w_err, w_throt, w_closeChan,
                   w_closedChan, w_closer, obsVars>>
    /\ UNCHANGED <<batcherVars, poolVars, auxVars>>

\* the deferred exit: close the handle when closeOnExit, close closedChan
LineWriterDefer ==
    /\ sinkType = "LineWriter"
    /\ wpc = "defer"
    /\ \E closeOnExit \in BOOLEAN :
        snkState' = IF closeOnExit THEN "closed" ELSE snkState
    /\ w_closedChan' = TRUE
    /\ wpc' = "done"
    /\ UNCHANGED <<srcVars, readerVars, sinkType, w_running, w_isConnected,
                   w_started, w_ts, w_err, w_throt, w_closeChan, w_closer,
                   obsVars>>
    /\ UNCHANGED <<batcherVars, poolVars, auxVars>>

\* LineWriter.CloseAsync: the compare-and-swap, then close(w.closeChan)
LineWriterCloseAsync ==
    /\ sinkType = "LineWriter"
    /\ \/ /\ w_closer = "idle"
          /\ IF w_running = 1
             THEN w_running' = 0 /\ w_closer' = "chan"
             ELSE w_closer' = "returned" /\ UNCHANGED w_running
          /\ UNCHANGED w_closeChan
       \/ /\ w_closer = "chan"
          /\ w_closeChan' = TRUE
          /\ w_closer' = "returned"
          /\ UNCHANGED w_running
    /\ UNCHANGED <<srcVars, readerVars, snkVars, sinkType, wpc, w_isConnected,
                   w_started, w_ts, w_err, w_throt, w_closedChan, obsVars>>
    /\ UNCHANGED <<batcherVars, poolVars, auxVars>>

(* ------------------- Reader feeding a sync Sink Wrapper ---------------- *)
\* a Transaction passes over the unbuffered r.transactions channel
Handoff ==
    /\ ReaderEmit
    /\ \/ WriterRecv(r_msg)
       \/ LineWriterRecv(r_msg)
    /\ UNCHANGED <<faults, responses, writes, acks>>
    /\ UNCHANGED <<batcherVars, poolVars, auxVars>>

\* a response passes over the unbuffered r.responses channel
Respond ==
    /\ \/ WriterRespond /\ ReaderAwait(WriterResponse)
       \/ LineWriterRespond /\ ReaderAwait(LineWriterResponse)
    /\ UNCHANGED <<faults, emitted, received, writes>>
    /\ UNCHANGED <<batcherVars, poolVars, auxVars>>

(* ---------------- any consumer of Reader.TransactionChan --------------- *)
\* a response with no error that asks the input not to acknowledge
NewUnack == [err |-> Nil, skipAck |-> TRUE]

\* what a consumer may send on a Transaction's response channel
ConsumerResponses == {NewError(Nil), NewError(ErrOther), NewUnack}

\* the consumer takes a Transaction from the Reader's transaction channel
ConsumerRecv(ts) ==
    /\ sinkType = "Consumer"
    /\ wpc = "recv"
    /\ w_ts' = ts
    /\ received' = received \cup {ts}
    /\ wpc' = "respond"
    /\ UNCHANGED <<snkVars, sinkType, w_running, w_isConnected, w_started,
                   w_err, w_throt, w_closeChan, w_closedChan, w_closer>>

\* the consumer resolves the Transaction it holds
ConsumerRespond ==
    /\ sinkType = "Consumer"
    /\ wpc = "respond"
    /\ responses' = [responses EXCEPT ![w_ts] = @ + 1]
    /\ wpc' = "recv"
    /\ UNCHANGED <<snkVars, sinkType, w_running, w_isConnected, w_started,
                   w_ts, w_err, w_throt, w_closeChan, w_closedChan, w_closer>>

ConsumerHandoff ==
    /\ ReaderEmit
    /\ ConsumerRecv(r_msg)
    /\ UNCHANGED <<faults, responses, writes, acks>>
    /\ UNCHANGED <<batcherVars, poolVars, auxVars>>

ConsumerResolve ==
    /\ \E res \in ConsumerResponses : ConsumerRespond /\ ReaderAwait(res)
    /\ UNCHANGED <<faults, emitted, received, writes>>
    /\ UNCHANGED <<batcherVars, poolVars, auxVars>>

\* no Batcher is part of the pipeline of a Reader and a sync sink
BatcherIdle ==
    /\ b_count = 0
    /\ b_period = FALSE
    /\ b_pc = "none"
    /\ b_in = <<>>
    /\ b_inClosed = FALSE
    /\ b_closeReq = FALSE
    /\ b_pending = <<>>
    /\ b_pendingTrans = <<>>
    /\ b_out = <<>>
    /\ b_resolved = <<>>
    /\ b_last = [out |-> 0, res |-> ResNone]

\* loops a wrapper can be made to run; one more than the largest limit
Loops == 1..(MaxInFlight + 1)

\* no sink wrapper is built from a max_in_flight setting
PoolIdle ==
    /\ p_limit = 1
    /\ p_kind = "Writer"
    /\ p_started = FALSE
    /\ p_pc = [w \in Loops |-> "off"]
    /\ p_ts = [w \in Loops |-> 0]
    /\ p_next = 1
    /\ p_inClosed = FALSE
    /\ p_closeChan = FALSE
    /\ p_res = [t \in 1..MaxPoolTx |-> "none"]

\* the sync Sink Wrappers a Reader can feed
SinkTypes == {"Writer", "LineWriter"}

\* NewReader, and a sink constructed but not yet consuming
PipeInit ==
    /\ srcRead = 0
    /\ srcState = "open"
    /\ rpc = "connect"
    /\ r_running = 1
    /\ r_connected = 0
    /\ r_msg = NoMsg
    /\ r_err = Nil
    /\ r_throt = 0
    /\ r_closeChan = FALSE
    /\ r_transClosed = FALSE
    /\ r_closedChan = FALSE
    /\ r_closer = "idle"
    /\ snkState = "open"
    /\ sinkType \in SinkTypes
    /\ wpc = "new"
    /\ w_running = 1
    /\ w_isConnected = 0
    /\ w_started = FALSE
    /\ w_ts = NoMsg
    /\ w_err = Nil
    /\ w_throt = 0
    /\ w_closeChan = FALSE
    /\ w_closedChan = FALSE
    /\ w_closer = "idle"
    /\ faults = 0
    /\ emitted = <<>>
    /\ received = {}
    /\ responses = [b \in Batches |-> 0]
    /\ writes = <<>>
    /\ acks = <<>>
    /\ calls = <<>>

Init == PipeInit /\ BatcherIdle /\ PoolIdle /\ AuxIdle

ReaderNext ==
    \/ ReaderConnect
    \/ ReaderConnectRetry
    \/ ReaderRead
    \/ ReaderReconnect
    \/ ReaderReconnectRetry
    \/ ReaderReread
    \/ ReaderReadRetry
    \/ ReaderEmitAbort
    \/ ReaderAwaitAbort
    \/ ReaderDefer
    \/ ReaderCloseAsync
    \/ SrcCloses
    \/ SrcCloseFails

WriterNext ==
    \/ WriterConsume
    \/ WriterConnect
    \/ WriterConnectRetry
    \/ WriterRecvClosed
    \/ WriterRecvAbort
    \/ WriterWrite
    \/ WriterReconnect
    \/ WriterReconnectRetry
    \/ WriterRewrite
    \/ WriterRewriteRetry
    \/ WriterWriteRetry
    \/ WriterRespondAbort
    \/ WriterDefer
    \/ WriterCloseAsync
    \/ SnkCloses

LineWriterNext ==
    \/ LineWriterConsume
    \/ LineWriterRecvReturn
    \/ LineWriterWrite
    \/ LineWriterRespondAbort
    \/ LineWriterDefer
    \/ LineWriterCloseAsync

Next ==
    \/ ReaderNext
    \/ WriterNext
    \/ LineWriterNext
    \/ Handoff
    \/ Respond

Spec == Init /\ [][Next]_vars

\* the steps a running Reader.loop goroutine takes by itself
ReaderLoop ==
    \/ ReaderConnect
    \/ ReaderConnectRetry
    \/ ReaderRead
    \/ ReaderReconnect
    \/ ReaderReconnectRetry
    \/ ReaderReread
    \/ ReaderReadRetry
    \/ ReaderEmitAbort
    \/ ReaderAwaitAbort
    \/ ReaderDefer

\* the steps a running Writer.loop goroutine takes by itself
WriterLoop ==
    \/ WriterConnect
    \/ WriterConnectRetry
    \/ WriterRecvClosed
    \/ WriterRecvAbort
    \/ WriterWrite
    \/ WriterReconnect
    \/ WriterReconnectRetry
    \/ WriterRewrite
    \/ WriterRewriteRetry
    \/ WriterWriteRetry
    \/ WriterRespondAbort
    \/ WriterDefer

\* goroutines that can run do run: the two loops, a CloseAsync call that has
\* begun runs to its return, and an adapter asked to close finishes its Close
\* one way or the other
SpecFair ==
    /\ Spec
    /\ WF_vars(ReaderLoop)
    /\ WF_vars(WriterLoop)
    /\ WF_vars(ReaderCloseAsync /\ r_closer # "idle")
    /\ WF_vars(WriterCloseAsync /\ w_closer # "idle")
    /\ WF_vars(SrcCloses \/ SrcCloseFails)
    /\ WF_vars(SnkCloses)

\* NewReader, and downstream either a consumer reading its transaction
\* channel or nobody
ReaderInit(downstream) ==
    /\ srcRead = 0
    /\ srcState = "open"
    /\ rpc = "connect"
    /\ r_running = 1
    /\ r_connected = 0
    /\ r_msg = NoMsg
    /\ r_err = Nil
    /\ r_throt = 0
    /\ r_closeChan = FALSE
    /\ r_transClosed = FALSE
    /\ r_closedChan = FALSE
    /\ r_closer = "idle"
    /\ snkState = "open"
    /\ sinkType = downstream
    /\ wpc = "recv"
    /\ w_running = 1
    /\ w_isConnected = 0
    /\ w_started = FALSE
    /\ w_ts = NoMsg
    /\ w_err = Nil
    /\ w_throt = 0
    /\ w_closeChan = FALSE
    /\ w_closedChan = FALSE
    /\ w_closer = "idle"
    /\ faults = 0
    /\ emitted = <<>>
    /\ received = {}
    /\ responses = [b \in Batches |-> 0]
    /\ writes = <<>>
    /\ acks = <<>>
    /\ calls = <<>>
    /\ BatcherIdle
    /\ PoolIdle
    /\ AuxIdle

InitReader == ReaderInit("Consumer")

NextReader ==
    \/ ReaderNext
    \/ ConsumerHandoff
    \/ ConsumerResolve

SpecReader == InitReader /\ [][NextReader]_vars

\* a Reader nobody consumes from, with an adapter that fails more often
InitReconnect == ReaderInit("None")

\* no Transaction is ever taken, so the Reader never awaits a resolution
NextReconnect ==
    \/ ReaderConnect
    \/ ReaderConnectRetry
    \/ ReaderRead
    \/ ReaderReconnect
    \/ ReaderReconnectRetry
    \/ ReaderReread
    \/ ReaderReadRetry
    \/ ReaderEmitAbort
    \/ ReaderDefer
    \/ ReaderCloseAsync
    \/ SrcCloses
    \/ SrcCloseFails

SpecReconnect == InitReconnect /\ [][NextReconnect]_vars

(* ---------------------------- output.Batcher --------------------------- *)
\* the plain error an outbound Transaction can be resolved with
PlainErr == "E"

\* the error a BatchError records for failed index i: one error per index
IndexErr(i) == "E" \o ToString(i)

\* number of parts a Transaction fed to the Batcher can carry
PartCounts == {1, 2}


\* the resolutions a consumer can give an outbound batch of n parts
Resolutions(n) ==
    {ResNil, ResErr(PlainErr)}
    \cup {ResBatch([i \in S |-> IndexErr(i)]) :
            S \in {T \in SUBSET (1..n) : T # {} /\ Cardinality(T) <= MaxFailed}}

\* the parts of Transaction t, which carries n parts
PartsOf(t, n) == [k \in 1..n |-> <<t, k>>]

\* every part fed to the Batcher so far, in arrival order
RECURSIVE ArrivedParts(_)
ArrivedParts(n) ==
    IF n = 0 THEN <<>> ELSE ArrivedParts(n - 1) \o PartsOf(n, b_in[n])

\* a count check that is off by one: it waits for one part too many
PolicyTriggersLate(pending) == b_count > 0 /\ Len(pending) > b_count

\* the policy triggers on count once that many parts are pending
PolicyTriggers(pending) == b_count > 0 /\ Len(pending) >= b_count

\* the indices of the outbound batch `parts` that belong to Transaction t
IndicesOf(parts, t) == {i \in DOMAIN parts : parts[i][1] = t}

\* the least element of a non-empty set of indices
Least(S) == CHOOSE i \in S : \A j \in S : i <= j

\* a fan-out that fails every constituent when any index failed
FanOutAllFail(parts, t, res) ==
    IF res.kind = "nil" THEN Nil
    ELSE IF res.kind = "err" THEN res.err
    ELSE res.failed[Least(DOMAIN res.failed)]

\* fan-out: what an original Transaction t is resolved with when the outbound
\* batch `parts` that holds its parts is resolved with res
FanOut(parts, t, res) ==
    IF res.kind = "nil" THEN Nil
    ELSE IF res.kind = "err" THEN res.err
    ELSE IF IndicesOf(parts, t) \cap DOMAIN res.failed = {} THEN Nil
    ELSE res.failed[Least(IndicesOf(parts, t) \cap DOMAIN res.failed)]

\* an outbound Transaction wrapping the accumulated batch
Outbound(final) ==
    [parts |-> b_pending, trans |-> b_pendingTrans, final |-> final,
     resolved |-> FALSE, res |-> ResNone]

\* NewBatcher and Consume: a policy with a count trigger, a period trigger or both
BatcherInit ==
    /\ b_count \in {0, MaxCount}
    /\ b_period \in BOOLEAN
    /\ b_count > 0 \/ b_period
    /\ b_pc = "run"
    /\ b_in = <<>>
    /\ b_inClosed = FALSE
    /\ b_closeReq = FALSE
    /\ b_pending = <<>>
    /\ b_pendingTrans = <<>>
    /\ b_out = <<>>
    /\ b_resolved = <<>>
    /\ b_last = [out |-> 0, res |-> ResNone]

\* an inbound Transaction arrives: its parts are appended to the pending
\* batch, the Transaction is recorded for the fan-out, the policy is checked
BatcherRecv ==
    /\ b_pc = "run"
    /\ ~b_inClosed
    /\ Len(b_in) < MaxTx
    /\ \E n \in PartCounts :
        /\ Len(ArrivedParts(Len(b_in))) + n <= MaxParts
        /\ b_in' = Append(b_in, n)
        /\ b_pending' = b_pending \o PartsOf(Len(b_in) + 1, n)
        /\ b_pendingTrans' = Append(b_pendingTrans, Len(b_in) + 1)
        /\ b_resolved' = Append(b_resolved, <<>>)
        /\ b_pc' = IF PolicyTriggers(b_pending \o PartsOf(Len(b_in) + 1, n))
                   THEN "flush" ELSE "run"
    /\ UNCHANGED <<b_count, b_period, b_inClosed, b_closeReq, b_out, b_last, pipeVars, poolVars, auxVars>>

\* a timer that is not armed for a single pending part
BatcherTimerSkipsOne ==
    /\ b_pc = "run"
    /\ b_period
    /\ Len(b_pending) > 1
    /\ b_pc' = "flush"
    /\ UNCHANGED <<b_count, b_period, b_in, b_inClosed, b_closeReq, b_pending,
                   b_pendingTrans, b_out, b_resolved, b_last, pipeVars, poolVars, auxVars>>

\* the period timer fires with parts pending and no new arrival
BatcherTimer ==
    /\ b_pc = "run"
    /\ b_period
    /\ b_pending # <<>>
    /\ b_pc' = "flush"
    /\ UNCHANGED <<b_count, b_period, b_in, b_inClosed, b_closeReq, b_pending,
                   b_pendingTrans, b_out, b_resolved, b_last, pipeVars, poolVars, auxVars>>

\* the triggered policy emits the accumulated batch and resets pending state
BatcherFlush ==
    /\ b_pc = "flush"
    /\ b_out' = Append(b_out, Outbound(FALSE))
    /\ b_pending' = <<>>
    /\ b_pendingTrans' = <<>>
    /\ b_pc' = "run"
    /\ UNCHANGED <<b_count, b_period, b_in, b_inClosed, b_closeReq, b_resolved,
                   b_last, pipeVars, poolVars, auxVars>>

\* the producer closes the Batcher's input channel
BatcherInputCloses ==
    /\ ~b_inClosed
    /\ b_inClosed' = TRUE
    /\ UNCHANGED <<b_count, b_period, b_pc, b_in, b_closeReq, b_pending,
                   b_pendingTrans, b_out, b_resolved, b_last, pipeVars, poolVars, auxVars>>

\* Batcher.CloseAsync
BatcherCloseAsync ==
    /\ ~b_closeReq
    /\ b_closeReq' = TRUE
    /\ UNCHANGED <<b_count, b_period, b_pc, b_in, b_inClosed, b_pending,
                   b_pendingTrans, b_out, b_resolved, b_last, pipeVars, poolVars, auxVars>>

\* a shutdown that drops the pending batch instead of flushing it
BatcherShutdownDrops ==
    /\ b_pc = "run"
    /\ b_inClosed \/ b_closeReq
    /\ b_pending' = <<>>
    /\ b_pendingTrans' = <<>>
    /\ b_pc' = "drain"
    /\ UNCHANGED <<b_count, b_period, b_in, b_inClosed, b_closeReq, b_out,
                   b_resolved, b_last, pipeVars, poolVars, auxVars>>

\* shutdown: the loop stops accepting work and flushes a non-empty pending
\* batch as a final, possibly undersized, emission
BatcherShutdown ==
    /\ b_pc = "run"
    /\ b_inClosed \/ b_closeReq
    /\ IF b_pending # <<>>
       THEN /\ b_out' = Append(b_out, Outbound(TRUE))
            /\ b_pending' = <<>>
            /\ b_pendingTrans' = <<>>
       ELSE UNCHANGED <<b_out, b_pending, b_pendingTrans>>
    /\ b_pc' = "drain"
    /\ UNCHANGED <<b_count, b_period, b_in, b_inClosed, b_closeReq, b_resolved,
                   b_last, pipeVars, poolVars, auxVars>>

\* a Batcher that waits for every outbound Transaction before it closes
BatcherClosesWhenResolved ==
    /\ b_pc = "drain"
    /\ \A j \in DOMAIN b_out : b_out[j].resolved
    /\ b_pc' = "closed"
    /\ b_last' = [out |-> 0, res |-> ResNone]
    /\ UNCHANGED <<b_count, b_period, b_in, b_inClosed, b_closeReq, b_pending,
                   b_pendingTrans, b_out, b_resolved, pipeVars, poolVars, auxVars>>

\* the Batcher reports closed: after the final flush, once its outbound
\* Transactions are resolved or CloseAsync was called (a resolution still in
\* flight is then abandoned)
BatcherCloses ==
    /\ b_pc = "drain"
    /\ b_closeReq \/ \A j \in DOMAIN b_out : b_out[j].resolved
    /\ b_pc' = "closed"
    /\ b_last' = [out |-> 0, res |-> ResNone]
    /\ UNCHANGED <<b_count, b_period, b_in, b_inClosed, b_closeReq, b_pending,
                   b_pendingTrans, b_out, b_resolved, pipeVars, poolVars, auxVars>>

\* the consumer resolves outbound Transaction j: its resolution is sent on
\* that Transaction's response channel
BatcherAck ==
    /\ b_pc # "closed"
    /\ b_last.out = 0
    /\ \E j \in DOMAIN b_out :
        /\ ~b_out[j].resolved
        /\ \E res \in Resolutions(Len(b_out[j].parts)) :
            b_last' = [out |-> j, res |-> res]
    /\ UNCHANGED <<b_count, b_period, b_pc, b_in, b_inClosed, b_closeReq,
                   b_pending, b_pendingTrans, b_out, b_resolved, pipeVars, poolVars, auxVars>>

\* a resolver that resolves the owner of a failed index once per failed index
BatcherFanOutPerIndex ==
    /\ b_pc # "closed"
    /\ b_last.out # 0
    /\ b_out' = [b_out EXCEPT ![b_last.out].resolved = TRUE,
                              ![b_last.out].res = b_last.res]
    /\ b_resolved' =
         [t \in DOMAIN b_resolved |->
            IF \E i \in DOMAIN b_out[b_last.out].trans :
                  b_out[b_last.out].trans[i] = t
            THEN LET F == IndicesOf(b_out[b_last.out].parts, t)
                            \cap DOMAIN b_last.res.failed
                 IN IF b_last.res.kind = "batch" /\ Cardinality(F) >= 2
                    THEN b_resolved[t]
                           \o <<b_last.res.failed[Least(F)],
                                b_last.res.failed[Least(F \ {Least(F)})]>>
                    ELSE Append(b_resolved[t],
                                FanOut(b_out[b_last.out].parts, t, b_last.res))
            ELSE b_resolved[t]]
    /\ b_last' = [out |-> 0, res |-> ResNone]
    /\ UNCHANGED <<b_count, b_period, b_pc, b_in, b_inClosed, b_closeReq,
                   b_pending, b_pendingTrans, pipeVars, poolVars, auxVars>>

\* the fan-out resolver receives the resolution and resolves every original
\* Transaction whose parts were combined into the outbound batch
BatcherFanOut ==
    /\ b_pc # "closed"
    /\ b_last.out # 0
    /\ b_out' = [b_out EXCEPT ![b_last.out].resolved = TRUE,
                              ![b_last.out].res = b_last.res]
    /\ b_resolved' =
         [t \in DOMAIN b_resolved |->
            IF \E i \in DOMAIN b_out[b_last.out].trans :
                  b_out[b_last.out].trans[i] = t
            THEN Append(b_resolved[t],
                        FanOut(b_out[b_last.out].parts, t, b_last.res))
            ELSE b_resolved[t]]
    /\ b_last' = [out |-> 0, res |-> ResNone]
    /\ UNCHANGED <<b_count, b_period, b_pc, b_in, b_inClosed, b_closeReq,
                   b_pending, b_pendingTrans, pipeVars, poolVars, auxVars>>

\* Batcher.WaitForClose(timeout): nil once the loop has exited, else ErrTimeout
BatcherWaitForClose == IF b_pc = "closed" THEN Nil ELSE ErrTimeout

\* the pipeline of Reader and sync sink is not part of a Batcher run
PipeIdle ==
    /\ PipeInit
    /\ sinkType = "Writer"

BatcherNext ==
    \/ BatcherRecv
    \/ BatcherTimer
    \/ BatcherFlush
    \/ BatcherInputCloses
    \/ BatcherCloseAsync
    \/ BatcherShutdown
    \/ BatcherCloses
    \/ BatcherAck
    \/ BatcherFanOut

InitBatcher == BatcherInit /\ PipeIdle /\ PoolIdle /\ AuxIdle

SpecBatcher == InitBatcher /\ [][BatcherNext]_vars

\* the timer and the emission of a triggered batch are not postponed forever
SpecBatcherFair ==
    SpecBatcher /\ WF_vars(BatcherTimer) /\ WF_vars(BatcherFlush)

\* the loop, besides, does not postpone its shutdown steps forever
SpecBatcherClose ==
    SpecBatcherFair /\ WF_vars(BatcherShutdown) /\ WF_vars(BatcherCloses)

(* ------------------- sink wrapper with max_in_flight ------------------- *)
\* the constructor picks the sync Writer for a limit of 1, else the AsyncWriter
NewSinkWrapper(maxInFlight) ==
    IF maxInFlight = 1 THEN "Writer" ELSE "AsyncWriter"

\* Write calls the adapter has not returned from
Outstanding == {w \in Loops : p_pc[w] = "write"}

\* results of a Write call that returns
PoolWriteResults == {Nil, ErrNotConnected, ErrTypeClosed, ErrOther}

PoolInit ==
    /\ p_limit \in 1..MaxInFlight
    /\ p_kind = NewSinkWrapper(p_limit)
    /\ p_started = FALSE
    /\ p_pc = [w \in Loops |-> "off"]
    /\ p_ts = [w \in Loops |-> 0]
    /\ p_next = 1
    /\ p_inClosed = FALSE
    /\ p_closeChan = FALSE
    /\ p_res = [t \in 1..MaxPoolTx |-> "none"]

\* a Consume that starts a loop on every call
SinkWriterConsumeUnguarded ==
    /\ p_kind = "Writer"
    /\ \E w \in Loops :
          /\ p_pc[w] = "off"
          /\ \A v \in Loops : v < w => p_pc[v] # "off"
          /\ p_pc' = [p_pc EXCEPT ![w] = "recv"]
    /\ p_started' = TRUE
    /\ UNCHANGED <<p_limit, p_kind, p_ts, p_next, p_inClosed, p_closeChan,
                   p_res, pipeVars, batcherVars, auxVars>>

\* Writer.Consume: ErrAlreadyStarted when started, else start the one loop
SinkWriterConsume ==
    /\ p_kind = "Writer"
    /\ ~p_started
    /\ p_started' = TRUE
    /\ p_pc' = [p_pc EXCEPT ![1] = "recv"]
    /\ UNCHANGED <<p_limit, p_kind, p_ts, p_next, p_inClosed, p_closeChan,
                   p_res, pipeVars, batcherVars, auxVars>>

\* AsyncWriter.Consume: start a fixed pool of max_in_flight worker loops
SinkAsyncWriterConsume ==
    /\ p_kind = "AsyncWriter"
    /\ ~p_started
    /\ p_started' = TRUE
    /\ p_pc' = [w \in Loops |-> IF w <= p_limit THEN "recv" ELSE "off"]
    /\ UNCHANGED <<p_limit, p_kind, p_ts, p_next, p_inClosed, p_closeChan,
                   p_res, pipeVars, batcherVars, auxVars>>

\* a loop receives the next Transaction from the single inbound channel
PoolRecv(w) ==
    /\ p_pc[w] = "recv"
    /\ ~p_inClosed
    /\ p_next <= MaxPoolTx
    /\ p_ts' = [p_ts EXCEPT ![w] = p_next]
    /\ p_next' = p_next + 1
    /\ p_pc' = [p_pc EXCEPT ![w] = "got"]
    /\ UNCHANGED <<p_limit, p_kind, p_started, p_inClosed, p_closeChan, p_res,
                   pipeVars, batcherVars, auxVars>>

\* the loop calls the adapter's Write, which may block indefinitely
PoolWriteCall(w) ==
    /\ p_pc[w] = "got"
    /\ p_pc' = [p_pc EXCEPT ![w] = "write"]
    /\ UNCHANGED <<p_limit, p_kind, p_started, p_ts, p_next, p_inClosed,
                   p_closeChan, p_res, pipeVars, batcherVars, auxVars>>

\* Write returns: ErrNotConnected leads to a retry of the same Write unless
\* the wrapper is closing, ErrTypeClosed ends the loop, any other result
\* becomes the response
PoolWriteReturn(w, err) ==
    /\ p_pc[w] = "write"
    /\ IF err = ErrNotConnected /\ ~p_closeChan
       THEN /\ p_pc' = [p_pc EXCEPT ![w] = "got"]
            /\ UNCHANGED p_res
       ELSE IF err \in {ErrNotConnected, ErrTypeClosed}
       THEN /\ p_pc' = [p_pc EXCEPT ![w] = "done"]
            /\ UNCHANGED p_res
       ELSE /\ p_pc' = [p_pc EXCEPT ![w] = "respond"]
            /\ p_res' = [p_res EXCEPT ![p_ts[w]] = err]
    /\ UNCHANGED <<p_limit, p_kind, p_started, p_ts, p_next, p_inClosed,
                   p_closeChan, pipeVars, batcherVars, auxVars>>

\* the response is taken from the Transaction's response channel
PoolRespond(w) ==
    /\ p_pc[w] = "respond"
    /\ p_pc' = [p_pc EXCEPT ![w] = "recv"]
    /\ p_ts' = [p_ts EXCEPT ![w] = 0]
    /\ UNCHANGED <<p_limit, p_kind, p_started, p_next, p_inClosed,
                   p_closeChan, p_res, pipeVars, batcherVars, auxVars>>

\* the loop returns: the channel is closed, or closeChan wins a select
PoolReturn(w) ==
    /\ \/ p_pc[w] = "recv" /\ (p_inClosed \/ p_closeChan)
       \/ p_pc[w] = "respond" /\ p_closeChan
    /\ p_pc' = [p_pc EXCEPT ![w] = "done"]
    /\ UNCHANGED <<p_limit, p_kind, p_started, p_ts, p_next, p_inClosed,
                   p_closeChan, p_res, pipeVars, batcherVars, auxVars>>

\* upstream closes the transaction channel
PoolInputCloses ==
    /\ p_started
    /\ ~p_inClosed
    /\ p_inClosed' = TRUE
    /\ UNCHANGED <<p_limit, p_kind, p_started, p_pc, p_ts, p_next,
                   p_closeChan, p_res, pipeVars, batcherVars, auxVars>>

\* CloseAsync closes closeChan once
PoolCloseAsync ==
    /\ ~p_closeChan
    /\ p_closeChan' = TRUE
    /\ UNCHANGED <<p_limit, p_kind, p_started, p_pc, p_ts, p_next, p_inClosed,
                   p_res, pipeVars, batcherVars, auxVars>>

PoolNext ==
    \/ SinkWriterConsume
    \/ SinkAsyncWriterConsume
    \/ \E w \in Loops : PoolRecv(w)
    \/ \E w \in Loops : PoolWriteCall(w)
    \/ \E w \in Loops, err \in PoolWriteResults : PoolWriteReturn(w, err)
    \/ \E w \in Loops : PoolRespond(w)
    \/ \E w \in Loops : PoolReturn(w)
    \/ PoolInputCloses
    \/ PoolCloseAsync

InitPool == PoolInit /\ PipeIdle /\ BatcherIdle /\ AuxIdle

SpecPool == InitPool /\ [][PoolNext]_vars

(* ------------------------- WrapWithPipelines --------------------------- *)
\* a Transaction in the wrapped output: trail lists the pipelines that have
\* processed it, in order
WrapTx(id, trail) == [id |-> id, trail |-> trail]
NoTx == WrapTx(0, <<>>)

\* a loop that walks the constructors first to last
WrapOrderForward(k, n) == n

\* `for i := len(pipeConstructors) - 1; i >= 0; i--`: the constructor (1-based)
\* the n-th iteration wraps
WrapOrder(k, n) == k + 1 - n

\* the call WrapWithPipelines(out, p1, ..., pk) on a sink that consumes nothing
WrapInit ==
    /\ wp_k \in 0..MaxPipes
    /\ wp_i = 0
    /\ wp_out = 0
    /\ wp_src = [c \in 0..MaxPipes |-> "none"]
    /\ wp_state = "wrapping"
    /\ wp_hold = [q \in 1..MaxPipes |-> NoTx]
    /\ wp_sent = 0
    /\ wp_sunk = <<>>

\* one iteration: WrapWithPipeline(out, pipeConstructors[i]); the constructor
\* may fail, and out.Consume refuses a second channel
WrapWithPipeline(ok) ==
    /\ wp_state = "wrapping"
    /\ wp_i < wp_k
    /\ LET j == WrapOrder(wp_k, wp_i + 1) IN
        IF ~ok \/ wp_src[wp_out] # "none"
        THEN /\ wp_state' = "failed"
             /\ UNCHANGED <<wp_i, wp_out, wp_src>>
        ELSE /\ wp_src' = [wp_src EXCEPT ![wp_out] = ToString(j)]
             /\ wp_out' = j
             /\ wp_i' = wp_i + 1
             /\ UNCHANGED wp_state
    /\ UNCHANGED <<wp_k, wp_hold, wp_sent, wp_sunk>>
    /\ UNCHANGED wrapRest

\* `return out, nil` once the loop has run through
WrapReturn ==
    /\ wp_state = "wrapping"
    /\ wp_i = wp_k
    /\ wp_state' = "wrapped"
    /\ UNCHANGED <<wp_k, wp_i, wp_out, wp_src, wp_hold, wp_sent, wp_sunk>>
    /\ UNCHANGED wrapRest

\* Consume(tsChan) on the returned output: WithPipeline.Consume hands the
\* channel to its own pipeline, the bare sink takes it itself
WithPipelineConsume ==
    /\ wp_state = "wrapped"
    /\ wp_src' = [wp_src EXCEPT ![wp_out] = "input"]
    /\ wp_state' = "consuming"
    /\ UNCHANGED <<wp_k, wp_i, wp_out, wp_hold, wp_sent, wp_sunk>>
    /\ UNCHANGED wrapRest

\* what stage c makes of a Transaction it receives: a pipeline appends its own
\* processing, the sink (stage 0) takes it as it is
PipeProcess(c, t) == IF c = 0 THEN t ELSE WrapTx(t.id, Append(t.trail, c))

\* stage c receives t from the channel it consumes
WrapDeliver(c, t) ==
    IF c = 0
    THEN /\ wp_sunk' = Append(wp_sunk, t)
         /\ UNCHANGED wp_hold
    ELSE /\ wp_hold[c] = NoTx
         /\ wp_hold' = [wp_hold EXCEPT ![c] = PipeProcess(c, t)]
         /\ UNCHANGED wp_sunk

\* the producer sends its next Transaction on tsChan
WrapSend ==
    /\ wp_state = "consuming"
    /\ wp_sent < MaxWrapTx
    /\ \E c \in 0..MaxPipes :
        /\ wp_src[c] = "input"
        /\ WrapDeliver(c, WrapTx(wp_sent + 1, <<>>))
    /\ wp_sent' = wp_sent + 1
    /\ UNCHANGED <<wp_k, wp_i, wp_out, wp_src, wp_state>>
    /\ UNCHANGED wrapRest

\* pipeline q emits the Transaction it processed on its TransactionChan, and
\* the stage consuming that channel receives it
PipeForward(q) ==
    /\ wp_hold[q] # NoTx
    /\ \E c \in 0..MaxPipes :
        /\ wp_src[c] = ToString(q)
        /\ IF c = 0
           THEN /\ wp_sunk' = Append(wp_sunk, wp_hold[q])
                /\ wp_hold' = [wp_hold EXCEPT ![q] = NoTx]
           ELSE /\ wp_hold[c] = NoTx
                /\ wp_hold' = [wp_hold EXCEPT ![q] = NoTx,
                                              ![c] = PipeProcess(c, wp_hold[q])]
                /\ UNCHANGED wp_sunk
    /\ UNCHANGED <<wp_k, wp_i, wp_out, wp_src, wp_state, wp_sent>>
    /\ UNCHANGED wrapRest

\* pipeline q emits nothing for the Transaction (a step dropped the Batch or
\* failed) and resolves it itself
PipeDrop(q) ==
    /\ wp_hold[q] # NoTx
    /\ wp_hold' = [wp_hold EXCEPT ![q] = NoTx]
    /\ UNCHANGED <<wp_k, wp_i, wp_out, wp_src, wp_state, wp_sent, wp_sunk>>
    /\ UNCHANGED wrapRest

WrapNext ==
    \/ \E ok \in BOOLEAN : WrapWithPipeline(ok)
    \/ WrapReturn
    \/ WithPipelineConsume
    \/ WrapSend
    \/ \E q \in 1..MaxPipes : PipeForward(q)
    \/ \E q \in 1..MaxPipes : PipeDrop(q)

\* nothing of the Reader, the sinks, the Batcher or the sink wrapper runs
CoreIdle == PipeIdle /\ BatcherIdle /\ PoolIdle

InitWrap == WrapInit /\ CoreIdle /\ ProcIdle /\ MsgIdle /\ EnvIdle /\ MoreIdle

SpecWrap == InitWrap /\ [][WrapNext]_vars

(* ------------------------ processors that fail ------------------------- *)
\* a message part: its content and the failure flag of its metadata
ProcPart(data, fail) == [data |-> data, fail |-> fail]

\* contents a part can start with
PartData == {<<1>>, <<2>>}

\* the messages handed to the first processor
ProcMessages ==
    UNION {[1..n -> {ProcPart(d, "") : d \in PartData}] : n \in 0..MaxMsgParts}

\* MarkErr(part, span, err): nothing for a nil error, else the error is
\* stored under the fail flag key
MarkErr(part, err) ==
    IF err = Nil THEN part ELSE [part EXCEPT !.fail = err]

\* GetFail(part): the error string of a failed part, empty if it has not failed
GetFail(part) == part.fail

\* the content of the archive made of the parts of msg
RECURSIVE ArchiveOf(_)
ArchiveOf(msg) ==
    IF msg = <<>> THEN <<0>> ELSE msg[1].data \o ArchiveOf(Tail(msg))

\* Archive.ProcessMessage(msg), err being the result of d.archive: either the
\* resulting message, or no message and the response for the source
ArchiveProcessMessage(msg, err) ==
    IF Len(msg) = 0 THEN [msgs |-> <<>>, live |-> FALSE, res |-> "ack"]
    ELSE IF err # Nil THEN [msgs |-> <<>>, live |-> FALSE, res |-> "ack"]
    ELSE [msgs |-> <<ProcPart(ArchiveOf(msg), "")>>, live |-> TRUE,
          res |-> "none"]

\* a message enters the processors
ProcInit ==
    /\ pr_msg \in ProcMessages
    /\ pr_live = TRUE
    /\ pr_res = "none"
    /\ pr_steps = 0
    /\ pr_last = [failed |-> FALSE, before |-> <<>>]

\* the archive processor is applied to the message
ArchiveStep(err) ==
    /\ pr_live
    /\ pr_steps < MaxSteps
    /\ LET out == ArchiveProcessMessage(pr_msg, err) IN
        /\ pr_msg' = out.msgs
        /\ pr_live' = out.live
        /\ pr_res' = out.res
    /\ pr_last' = [failed |-> (Len(pr_msg) > 0 /\ err # Nil), before |-> pr_msg]
    /\ pr_steps' = pr_steps + 1
    /\ UNCHANGED procRest

\* a processor works on part i, and marks the part when it fails on it
MarkErrStep(i, err) ==
    /\ pr_live
    /\ pr_steps < MaxSteps
    /\ i \in DOMAIN pr_msg
    /\ pr_msg' = [pr_msg EXCEPT ![i] = MarkErr(@, err)]
    /\ pr_last' = [failed |-> err # Nil, before |-> pr_msg]
    /\ pr_steps' = pr_steps + 1
    /\ UNCHANGED <<pr_live, pr_res>>
    /\ UNCHANGED procRest

ProcNext ==
    \/ \E err \in {Nil, ErrOther} : ArchiveStep(err)
    \/ \E i \in 1..MaxMsgParts, err \in {Nil, ErrOther} : MarkErrStep(i, err)

InitProc == ProcInit /\ CoreIdle /\ WrapIdle /\ MsgIdle /\ EnvIdle /\ MoreIdle

SpecProc == InitProc /\ [][ProcNext]_vars

(* ------------------------- messages and copies ------------------------- *)
\* byte contents: two bytes, the first one telling a JSON document (1) from
\* anything else (0)
ByteVals == 0..1
Contents == [1..2 -> ByteVals]

\* parsing bytes into the structured view: an error unless they hold a document
ParseJSON(b) ==
    IF b[1] = 1 THEN [ok |-> TRUE, val |-> b[2]] ELSE [ok |-> FALSE, val |-> 0]

\* the bytes of a structured value
SerialiseJSON(v) == <<1, v>>

Handles == {1, 2}

\* a copy of any kind that keeps reading the original's byte slice
CopySharesAlways(kind) == TRUE

\* Copy is shallow and leaves both messages on one byte slice; DeepCopy
\* duplicates the slice
CopyShares(kind) == kind = "Copy"

\* a cached structured view with value v, and the empty cache
View(v) == [set |-> TRUE, val |-> v]
NoView == [set |-> FALSE, val |-> 0]

\* a write of the given kind that replaced a write of kind over: SetBytes(b),
\* or SetStructured(v), b then being the bytes of v
LastWrite(kind, b, v, over) ==
    [kind |-> kind, bytes |-> b, val |-> v, over |-> over]

\* a message with some bytes and the metadata foo=bar
MsgInit ==
    /\ \E b \in Contents :
        /\ m_bytes = [h \in Handles |-> b]
        /\ m_want = [h \in Handles |-> [bytes |-> b, meta |-> 0]]
        /\ m_last = [h \in Handles |-> LastWrite("bytes", b, 0, "none")]
    /\ m_meta = [h \in Handles |-> 0]
    /\ m_cache = [h \in Handles |-> NoView]
    /\ m_copied = "no"
    /\ m_shared = FALSE
    /\ m_raw = FALSE
    /\ m_ops = 0

\* the handles that exist
Live == IF m_copied = "no" THEN {1} ELSE Handles

\* one more operation may be applied through handle h
MsgOp(h) ==
    /\ h \in Live
    /\ m_ops < MaxMsgOps
    /\ m_ops' = m_ops + 1
    /\ UNCHANGED msgRest

\* g2 := g1.Copy() or g1.DeepCopy()
MsgCopy(kind) ==
    /\ m_copied = "no"
    /\ MsgOp(1)
    /\ m_copied' = kind
    /\ m_shared' = CopyShares(kind)
    /\ m_bytes' = [m_bytes EXCEPT ![2] = m_bytes[1]]
    /\ m_meta' = [m_meta EXCEPT ![2] = m_meta[1]]
    /\ m_cache' = [m_cache EXCEPT ![2] = m_cache[1]]
    /\ m_want' = [h \in Handles |-> [bytes |-> m_bytes[1], meta |-> m_meta[1]]]
    /\ m_last' = [m_last EXCEPT ![2] = m_last[1]]
    /\ UNCHANGED m_raw

\* a SetBytes under which the cached structured view survives
MsgSetBytesKeepsCache(h, b) ==
    /\ MsgOp(h)
    /\ m_bytes' = [m_bytes EXCEPT ![h] = b]
    /\ m_shared' = FALSE
    /\ m_want' = [m_want EXCEPT ![h].bytes = b]
    /\ m_last' = [m_last EXCEPT ![h] = LastWrite("bytes", b, 0, m_last[h].kind)]
    /\ UNCHANGED <<m_meta, m_copied, m_raw, m_cache>>

\* SetBytes(b), Part.Set(b): the message gets a slice of its own and its
\* structured view is dropped
MsgSetBytes(h, b) ==
    /\ MsgOp(h)
    /\ m_bytes' = [m_bytes EXCEPT ![h] = b]
    /\ m_cache' = [m_cache EXCEPT ![h] = NoView]
    /\ m_shared' = FALSE
    /\ m_want' = [m_want EXCEPT ![h].bytes = b]
    /\ m_last' = [m_last EXCEPT ![h] = LastWrite("bytes", b, 0, m_last[h].kind)]
    /\ UNCHANGED <<m_meta, m_copied, m_raw>>

\* SetStructured(v): the view is kept and the bytes are those of v
MsgSetStructured(h, v) ==
    /\ MsgOp(h)
    /\ m_cache' = [m_cache EXCEPT ![h] = View(v)]
    /\ m_bytes' = [m_bytes EXCEPT ![h] = SerialiseJSON(v)]
    /\ m_shared' = FALSE
    /\ m_want' = [m_want EXCEPT ![h].bytes = SerialiseJSON(v)]
    /\ m_last' = [m_last EXCEPT
                    ![h] = LastWrite("structured", SerialiseJSON(v), v,
                                     m_last[h].kind)]
    /\ UNCHANGED <<m_meta, m_copied, m_raw>>

\* what AsStructured() returns: the cached view, else the parsed bytes
AsStructured(h) ==
    IF m_cache[h].set THEN [ok |-> TRUE, val |-> m_cache[h].val]
    ELSE ParseJSON(m_bytes[h])

\* a call of AsStructured() that parses the bytes and keeps the result
MsgAsStructured(h) ==
    /\ MsgOp(h)
    /\ ~m_cache[h].set
    /\ ParseJSON(m_bytes[h]).ok
    /\ m_cache' = [m_cache EXCEPT ![h] = View(ParseJSON(m_bytes[h]).val)]
    /\ UNCHANGED <<m_bytes, m_meta, m_copied, m_shared, m_want, m_last, m_raw>>

\* MetaSet("foo", v)
MsgMetaSet(h, v) ==
    /\ MsgOp(h)
    /\ m_meta' = [m_meta EXCEPT ![h] = v]
    /\ m_want' = [m_want EXCEPT ![h].meta = v]
    /\ UNCHANGED <<m_bytes, m_cache, m_copied, m_shared, m_last, m_raw>>

\* `Get()[i] = c`: a write into the byte slice, seen by every message that
\* reads this slice
MsgWriteByte(h, i, c) ==
    /\ m_copied # "no"
    /\ MsgOp(h)
    /\ m_bytes' = [g \in Handles |->
                     IF g = h \/ m_shared
                     THEN [m_bytes[g] EXCEPT ![i] = c] ELSE m_bytes[g]]
    /\ m_want' = [m_want EXCEPT ![h].bytes = [m_bytes[h] EXCEPT ![i] = c]]
    /\ m_raw' = TRUE
    /\ UNCHANGED <<m_meta, m_cache, m_copied, m_shared, m_last>>

MsgNext ==
    \/ \E kind \in {"Copy", "DeepCopy"} : MsgCopy(kind)
    \/ \E h \in Handles, b \in Contents : MsgSetBytes(h, b)
    \/ \E h \in Handles, v \in ByteVals : MsgSetStructured(h, v)
    \/ \E h \in Handles : MsgAsStructured(h)
    \/ \E h \in Handles, v \in ByteVals : MsgMetaSet(h, v)
    \/ \E h \in Handles, i \in 1..2, c \in ByteVals : MsgWriteByte(h, i, c)

InitMsg == MsgInit /\ CoreIdle /\ WrapIdle /\ ProcIdle /\ EnvIdle /\ MoreIdle

SpecMsg == InitMsg /\ [][MsgNext]_vars

(* ------------------------ Bloblang environments ------------------------ *)
\* names of functions and methods
Names == {"foo", "bar"}

\* an Environment: the set its functions field points to and the set its
\* methods field points to
Environment(f, m) == [functions |-> f, methods |-> m]

\* FunctionSet.Without(names...), MethodSet.Without(names...): a new set with
\* what the old one holds except the names
Without(set, names) == set \ names

\* the global environment, over query.AllFunctions and query.AllMethods
EnvInit ==
    /\ e_sets = <<{"foo"}, {"foo"}>>
    /\ e_envs = <<Environment(1, 2)>>
    /\ e_act = 0

\* the functions and the methods environment e accepts when parsing
Accepts(e) ==
    [functions |-> e_sets[e_envs[e].functions],
     methods |-> e_sets[e_envs[e].methods]]

\* NewEnvironment(): query.AllFunctions.Without() and query.AllMethods.Without()
NewEnvironment ==
    /\ Len(e_envs) < MaxEnvs
    /\ e_sets' = e_sets \o <<Without(e_sets[1], {}), Without(e_sets[2], {})>>
    /\ e_envs' = Append(e_envs, Environment(Len(e_sets) + 1, Len(e_sets) + 2))
    /\ e_act' = 0
    /\ UNCHANGED envRest

\* e.WithoutMethods(names...): `functions: e.functions` and
\* `methods: e.methods.Without(names...)`
WithoutMethods(e, names) ==
    /\ Len(e_envs) < MaxEnvs
    /\ e \in DOMAIN e_envs
    /\ e_sets' = Append(e_sets, Without(e_sets[e_envs[e].methods], names))
    /\ e_envs' = Append(e_envs,
                        Environment(e_envs[e].functions, Len(e_sets) + 1))
    /\ e_act' = 0
    /\ UNCHANGED envRest

\* e.WithoutFunctions(names...): `functions: e.functions.Without(names...)`
\* and `methods: e.methods`
WithoutFunctions(e, names) ==
    /\ Len(e_envs) < MaxEnvs
    /\ e \in DOMAIN e_envs
    /\ e_sets' = Append(e_sets, Without(e_sets[e_envs[e].functions], names))
    /\ e_envs' = Append(e_envs,
                        Environment(Len(e_sets) + 1, e_envs[e].methods))
    /\ e_act' = 0
    /\ UNCHANGED envRest

\* e.RegisterFunction(name, ctor): e.functions.Add
RegisterFunction(e, name) ==
    /\ e \in DOMAIN e_envs
    /\ name \notin e_sets[e_envs[e].functions]
    /\ e_sets' = [e_sets EXCEPT ![e_envs[e].functions] = @ \cup {name}]
    /\ e_act' = e
    /\ UNCHANGED e_envs
    /\ UNCHANGED envRest

\* e.RegisterMethod(name, ctor): e.methods.Add
RegisterMethod(e, name) ==
    /\ e \in DOMAIN e_envs
    /\ name \notin e_sets[e_envs[e].methods]
    /\ e_sets' = [e_sets EXCEPT ![e_envs[e].methods] = @ \cup {name}]
    /\ e_act' = e
    /\ UNCHANGED e_envs
    /\ UNCHANGED envRest

EnvNext ==
    \/ NewEnvironment
    \/ \E e \in 1..MaxEnvs, names \in SUBSET Names : WithoutMethods(e, names)
    \/ \E e \in 1..MaxEnvs, names \in SUBSET Names : WithoutFunctions(e, names)
    \/ \E e \in 1..MaxEnvs, name \in Names : RegisterFunction(e, name)
    \/ \E e \in 1..MaxEnvs, name \in Names : RegisterMethod(e, name)

InitEnv == EnvInit /\ CoreIdle /\ WrapIdle /\ ProcIdle /\ MsgIdle /\ MoreIdle

SpecEnv == InitEnv /\ [][EnvNext]_vars

(* ------------------- CloseAsync and Consume callers --------------------- *)
ErrAlreadyStarted == "ErrAlreadyStarted"
Kinds == {"Reader", "Writer", "LineWriter"}
Callers == 1..MaxCallers
\* the channels a caller can hand to Consume
Chans == {1, 2}
NoCall == [op |-> "none", pc |-> "none", ts |-> 0]
Ret(op, c, err) == [op |-> op, by |-> c, err |-> err]

\* a compare-and-swap that succeeds whatever the flag holds
CompareAndSwapAlways(v, old) == TRUE

\* atomic.CompareAndSwapInt32(&running, old, 0) succeeds when the flag holds old
CompareAndSwap(v, old) == v = old

\* NewReader starts its loop; NewWriter and NewLineWriter wait for Consume
LifeInit ==
    /\ lc_kind \in Kinds
    /\ lc_running = 1
    /\ lc_closes = 0
    /\ lc_adapter = 0
    /\ lc_loop = IF lc_kind = "Reader" THEN "running" ELSE "none"
    /\ lc_loops = IF lc_kind = "Reader" THEN 1 ELSE 0
    /\ lc_trans = 0
    /\ lc_assigned = <<>>
    /\ lc_call = [c \in Callers |-> NoCall]
    /\ lc_rets = <<>>
    /\ lc_calls = 0

LifeLive == lc_kind # "none"

\* a caller enters CloseAsync
CallCloseAsync(c) ==
    /\ LifeLive
    /\ lc_call[c].op = "none"
    /\ lc_calls < MaxLifeCalls
    /\ lc_call' = [lc_call EXCEPT ![c] = [op |-> "CloseAsync", pc |-> "cas", ts |-> 0]]
    /\ lc_calls' = lc_calls + 1
    /\ UNCHANGED <<lc_kind, lc_running, lc_closes, lc_adapter, lc_loop, lc_loops,
                   lc_trans, lc_assigned, lc_rets>>
    /\ UNCHANGED lifeRest

\* CloseAsync, one statement at a time: the compare-and-swap, the adapter's
\* CloseAsync (the LineWriter has no adapter), close(closeChan)
CloseAsync(c) ==
    /\ lc_call[c].op = "CloseAsync"
    /\ \/ /\ lc_call[c].pc = "cas"
          /\ CompareAndSwap(lc_running, 1)
          /\ lc_running' = 0
          /\ lc_call' = [lc_call EXCEPT ![c].pc =
                            IF lc_kind = "LineWriter" THEN "chan" ELSE "adapter"]
          /\ UNCHANGED <<lc_closes, lc_adapter, lc_rets>>
       \/ /\ lc_call[c].pc = "cas"
          /\ ~CompareAndSwap(lc_running, 1)
          /\ lc_call' = [lc_call EXCEPT ![c] = NoCall]
          /\ lc_rets' = Append(lc_rets, Ret("CloseAsync", c, Nil))
          /\ UNCHANGED <<lc_running, lc_closes, lc_adapter>>
       \/ /\ lc_call[c].pc = "adapter"
          /\ lc_adapter' = lc_adapter + 1
          /\ lc_call' = [lc_call EXCEPT ![c].pc = "chan"]
          /\ UNCHANGED <<lc_running, lc_closes, lc_rets>>
       \/ /\ lc_call[c].pc = "chan"
          /\ lc_closes' = lc_closes + 1
          /\ lc_call' = [lc_call EXCEPT ![c] = NoCall]
          /\ lc_rets' = Append(lc_rets, Ret("CloseAsync", c, Nil))
          /\ UNCHANGED <<lc_running, lc_adapter>>
    /\ UNCHANGED <<lc_kind, lc_loop, lc_loops, lc_trans, lc_assigned, lc_calls>>
    /\ UNCHANGED lifeRest

\* a caller enters Consume with a channel
CallConsume(c, ts) ==
    /\ lc_kind \in {"Writer", "LineWriter"}
    /\ lc_call[c].op = "none"
    /\ lc_calls < MaxLifeCalls
    /\ lc_call' = [lc_call EXCEPT ![c] = [op |-> "Consume", pc |-> "check", ts |-> ts]]
    /\ lc_calls' = lc_calls + 1
    /\ UNCHANGED <<lc_kind, lc_running, lc_closes, lc_adapter, lc_loop, lc_loops,
                   lc_trans, lc_assigned, lc_rets>>
    /\ UNCHANGED lifeRest

\* Consume, one statement at a time: the nil test, the assignment, go w.loop()
Consume(c) ==
    /\ lc_call[c].op = "Consume"
    /\ \/ /\ lc_call[c].pc = "check"
          /\ lc_trans # 0
          /\ lc_call' = [lc_call EXCEPT ![c] = NoCall]
          /\ lc_rets' = Append(lc_rets, Ret("Consume", c, ErrAlreadyStarted))
          /\ UNCHANGED <<lc_trans, lc_assigned, lc_loop, lc_loops>>
       \/ /\ lc_call[c].pc = "check"
          /\ lc_trans = 0
          /\ lc_call' = [lc_call EXCEPT ![c].pc = "assign"]
          /\ UNCHANGED <<lc_trans, lc_assigned, lc_loop, lc_loops, lc_rets>>
       \/ /\ lc_call[c].pc = "assign"
          /\ lc_trans' = lc_call[c].ts
          /\ lc_assigned' = Append(lc_assigned, lc_call[c].ts)
          /\ lc_call' = [lc_call EXCEPT ![c].pc = "go"]
          /\ UNCHANGED <<lc_loop, lc_loops, lc_rets>>
       \/ /\ lc_call[c].pc = "go"
          /\ lc_loop' = "running"
          /\ lc_loops' = lc_loops + 1
          /\ lc_call' = [lc_call EXCEPT ![c] = NoCall]
          /\ lc_rets' = Append(lc_rets, Ret("Consume", c, Nil))
          /\ UNCHANGED <<lc_trans, lc_assigned>>
    /\ UNCHANGED <<lc_kind, lc_running, lc_closes, lc_adapter, lc_calls>>
    /\ UNCHANGED lifeRest

\* the loop returns: its adapter reported closed, its input was closed, or it
\* saw the running flag cleared; it leaves the flag and closeChan alone
LoopReturns ==
    /\ lc_loop = "running"
    /\ lc_loop' = "exited"
    /\ UNCHANGED <<lc_kind, lc_running, lc_closes, lc_adapter, lc_loops,
                   lc_trans, lc_assigned, lc_call, lc_rets, lc_calls>>
    /\ UNCHANGED lifeRest

LifeNext ==
    \/ \E c \in Callers : CallCloseAsync(c)
    \/ \E c \in Callers : CloseAsync(c)
    \/ \E c \in Callers, ts \in Chans : CallConsume(c, ts)
    \/ \E c \in Callers : Consume(c)
    \/ LoopReturns

InitLife == LifeInit /\ CoreIdle /\ FirstIdle /\ CloseIdle /\ KafkaIdle /\ CacheIdle /\ ConfIdle

SpecLife == InitLife /\ [][LifeNext]_vars

(* -------------------- closing a wrapped output -------------------------- *)
Layers == 1..wc_k
NotCalled == [called |-> FALSE, pipe |-> "running", elapsed |-> FALSE]

\* i.pipe.WaitForClose(shutdown.MaximumShutdownWait()) returns when the
\* pipeline has closed or when the maximum shutdown wait has run out
PipeWaitReturnsAtOnce(pipe, elapsed) == TRUE

PipeWaitReturns(pipe, elapsed) == pipe = "closed" \/ elapsed

\* the output's own WaitForClose: nil once it has closed, else the timeout
OutWaitForClose(out) == IF out = "closed" THEN Nil ELSE ErrTimeout

\* WrapWithPipelines has returned an output under k pipelines, all running
CloseInit ==
    /\ wc_k \in 1..MaxPipes
    /\ wc_pipe = [j \in Layers |-> "running"]
    /\ wc_go = [j \in Layers |-> "none"]
    /\ wc_elapsed = [j \in Layers |-> FALSE]
    /\ wc_at = [j \in Layers |-> NotCalled]
    /\ wc_out = "running"
    /\ wc_wait = <<>>

\* i.pipe.CloseAsync() and `go func() {...}()` of layer j
LayerCloseAsync(j) ==
    /\ wc_pipe' = [wc_pipe EXCEPT ![j] = IF @ = "running" THEN "closing" ELSE @]
    /\ wc_go' = [wc_go EXCEPT ![j] = "waiting"]

\* CloseAsync called on the outermost layer
WithPipelineCloseAsync ==
    /\ wc_k > 0
    /\ wc_go[1] = "none"
    /\ LayerCloseAsync(1)
    /\ UNCHANGED <<wc_k, wc_elapsed, wc_at, wc_out, wc_wait>>
    /\ UNCHANGED closeRest

\* the goroutine of layer j: its wait on the pipeline returns and it calls
\* i.out.CloseAsync(), on the next layer or on the output itself
WithPipelineGo(j) ==
    /\ wc_go[j] = "waiting"
    /\ PipeWaitReturns(wc_pipe[j], wc_elapsed[j])
    /\ wc_at' = [wc_at EXCEPT ![j] = [called |-> TRUE, pipe |-> wc_pipe[j],
                                      elapsed |-> wc_elapsed[j]]]
    /\ IF j < wc_k
       THEN /\ wc_pipe' = [wc_pipe EXCEPT ![j + 1] =
                              IF @ = "running" THEN "closing" ELSE @]
            /\ wc_go' = [wc_go EXCEPT ![j] = "done", ![j + 1] = "waiting"]
            /\ UNCHANGED wc_out
       ELSE /\ wc_out' = IF wc_out = "running" THEN "closing" ELSE wc_out
            /\ wc_go' = [wc_go EXCEPT ![j] = "done"]
            /\ UNCHANGED wc_pipe
    /\ UNCHANGED <<wc_k, wc_elapsed, wc_wait>>
    /\ UNCHANGED closeRest

\* the maximum shutdown wait runs out while layer j waits on its pipeline
MaximumShutdownWait(j) ==
    /\ wc_go[j] = "waiting"
    /\ wc_pipe[j] # "closed"
    /\ ~wc_elapsed[j]
    /\ wc_elapsed' = [wc_elapsed EXCEPT ![j] = TRUE]
    /\ UNCHANGED <<wc_k, wc_pipe, wc_go, wc_at, wc_out, wc_wait>>
    /\ UNCHANGED closeRest

\* pipeline j finishes closing: it was asked to, or the channel it reads from
\* was closed by the pipeline before it
PipeCloses(j) ==
    /\ j \in Layers
    /\ \/ wc_pipe[j] = "closing"
       \/ wc_pipe[j] = "running" /\ j > 1 /\ wc_pipe[j - 1] = "closed"
    /\ wc_pipe' = [wc_pipe EXCEPT ![j] = "closed"]
    /\ UNCHANGED <<wc_k, wc_go, wc_elapsed, wc_at, wc_out, wc_wait>>
    /\ UNCHANGED closeRest

\* the output finishes closing: it was asked to, or the last pipeline closed
\* the channel it consumes and its loop returned
OutCloses ==
    /\ wc_k > 0
    /\ \/ wc_out = "closing"
       \/ wc_out = "running" /\ wc_pipe[wc_k] = "closed"
    /\ wc_out' = "closed"
    /\ UNCHANGED <<wc_k, wc_pipe, wc_go, wc_elapsed, wc_at, wc_wait>>
    /\ UNCHANGED closeRest

\* WaitForClose(timeout) on the outermost layer: every layer returns
\* i.out.WaitForClose(timeout), so the answer is the output's
WithPipelineWaitForClose ==
    /\ wc_k > 0
    /\ Len(wc_wait) < MaxWaits
    /\ wc_wait' = Append(wc_wait, [err |-> OutWaitForClose(wc_out), out |-> wc_out,
                                    pipes |-> wc_pipe])
    /\ UNCHANGED <<wc_k, wc_pipe, wc_go, wc_elapsed, wc_at, wc_out>>
    /\ UNCHANGED closeRest

CloseNext ==
    \/ WithPipelineCloseAsync
    \/ \E j \in Layers : WithPipelineGo(j)
    \/ \E j \in Layers : MaximumShutdownWait(j)
    \/ \E j \in 1..MaxPipes : PipeCloses(j)
    \/ OutCloses
    \/ WithPipelineWaitForClose

InitClose == CloseInit /\ CoreIdle /\ FirstIdle /\ LifeIdle /\ KafkaIdle /\ CacheIdle /\ ConfIdle

SpecClose == InitClose /\ [][CloseNext]_vars

(* ------------------------- reader.KafkaBalanced ------------------------- *)
Partitions == 1..MaxPartitions

\* setOffset(topic, partition, offset): the map keeps one offset per partition
setOffset(offsets, partition, offset) == [offsets EXCEPT ![partition] = offset]

\* the loop of Acknowledge(nil): MarkPartitionOffset for every entry of k.offsets
MarkAll(marked, offsets) ==
    [p \in Partitions |-> IF offsets[p] # 0 THEN offsets[p] ELSE marked[p]]

\* Connect has returned nil: a consumer exists and nothing was read yet
KafkaInit ==
    /\ k_consumer = TRUE
    /\ k_offsets = [p \in Partitions |-> 0]
    /\ k_marked = [p \in Partitions |-> 0]
    /\ k_committed = [p \in Partitions |-> 0]
    /\ k_next = [p \in Partitions |-> 1]
    /\ k_msgs = <<>>
    /\ k_acks = <<>>

\* the message read last still waits for its Acknowledge
KafkaPending == k_msgs # <<>> /\ k_msgs[Len(k_msgs)].res = "pending"

\* Read(): the next message of some partition arrives on consumer.Messages()
KafkaRead(p) ==
    /\ k_consumer
    /\ ~KafkaPending
    /\ Len(k_msgs) < MaxKafkaMsgs
    /\ k_offsets' = setOffset(k_offsets, p, k_next[p])
    /\ k_next' = [k_next EXCEPT ![p] = @ + 1]
    /\ k_msgs' = Append(k_msgs, [part |-> p, offset |-> k_next[p], res |-> "pending"])
    /\ UNCHANGED <<k_consumer, k_marked, k_committed, k_acks>>
    /\ UNCHANGED kafkaRest

\* Acknowledge(err) for the message read last; due says whether the commit
\* period has passed since the last commit
KafkaAcknowledge(err, due) ==
    /\ KafkaPending
    /\ k_msgs' = [k_msgs EXCEPT ![Len(k_msgs)].res =
                     IF err = Nil THEN "ack" ELSE "nack"]
    /\ k_marked' = IF err = Nil /\ k_consumer
                   THEN MarkAll(k_marked, k_offsets) ELSE k_marked
    /\ IF ~due
       THEN /\ k_acks' = Append(k_acks, Nil)
            /\ UNCHANGED k_committed
       ELSE IF k_consumer
            THEN /\ k_committed' = k_marked'
                 /\ k_acks' = Append(k_acks, Nil)
            ELSE /\ k_acks' = Append(k_acks, ErrNotConnected)
                 /\ UNCHANGED k_committed
    /\ UNCHANGED <<k_consumer, k_offsets, k_next>>
    /\ UNCHANGED kafkaRest

\* closeClients(): commit what is marked, close the consumer, set it to nil
KafkaCloseClients ==
    /\ k_consumer
    /\ k_committed' = k_marked
    /\ k_consumer' = FALSE
    /\ UNCHANGED <<k_offsets, k_marked, k_next, k_msgs, k_acks>>
    /\ UNCHANGED kafkaRest

KafkaNext ==
    \/ \E p \in Partitions : KafkaRead(p)
    \/ \E err \in {Nil, ErrOther}, due \in BOOLEAN : KafkaAcknowledge(err, due)
    \/ KafkaCloseClients

InitKafka == KafkaInit /\ CoreIdle /\ FirstIdle /\ LifeIdle /\ CloseIdle /\ CacheIdle /\ ConfIdle

SpecKafka == InitKafka /\ [][KafkaNext]_vars

(* ----------------------- schemaRegistryDecoder -------------------------- *)
SchemaIds == 1..MaxSchemaIds
\* schemaStaleAfter, in seconds of the model's clock
schemaStaleAfter == 1
NotCached == [cached |-> FALSE, last |-> 0]
PurgeIdle == [pc |-> "idle", targets |-> {}, targetTime |-> 0, k |-> 0]
GetIdle == [pc |-> "idle", id |-> 0]

\* the purge goroutine holds cacheMut for writing
WLocked == sc_purge.pc \in {"locked", "delete"}

\* the first pass of clearExpired: the ids whose last use is before targetTime
Stale(schemas, targetTime) ==
    {k \in SchemaIds : schemas[k].cached /\ schemas[k].last < targetTime}

\* newSchemaRegistryDecoder: an empty cache and the purge goroutine
CacheInit ==
    /\ sc_now = 0
    /\ sc_schemas = [k \in SchemaIds |-> NotCached]
    /\ sc_purge = PurgeIdle
    /\ sc_get = GetIdle
    /\ sc_gets = 0
    /\ sc_closed = FALSE
    /\ sc_examined = <<>>
    /\ sc_removed = <<>>

\* a second passes
CacheTick ==
    /\ sc_purge.pc # "none"
    /\ sc_now < MaxTime
    /\ sc_now' = sc_now + 1
    /\ UNCHANGED <<sc_schemas, sc_purge, sc_get, sc_gets, sc_closed,
                   sc_examined, sc_removed>>
    /\ UNCHANGED cacheRest

\* the purge period passes and clearExpired runs its first pass under RLock
clearExpiredFirstPass ==
    /\ sc_purge.pc = "idle"
    /\ ~sc_closed
    /\ LET targetTime == sc_now - schemaStaleAfter
           targets == Stale(sc_schemas, targetTime)
       IN  sc_purge' = IF targets = {} THEN PurgeIdle
                       ELSE [pc |-> "between", targets |-> targets,
                             targetTime |-> targetTime, k |-> 0]
    /\ UNCHANGED <<sc_now, sc_schemas, sc_get, sc_gets, sc_closed,
                   sc_examined, sc_removed>>
    /\ UNCHANGED cacheRest

\* `if len(targets) > 0 { s.cacheMut.Lock()`
clearExpiredLock ==
    /\ sc_purge.pc = "between"
    /\ sc_purge' = [sc_purge EXCEPT !.pc = "locked"]
    /\ UNCHANGED <<sc_now, sc_schemas, sc_get, sc_gets, sc_closed,
                   sc_examined, sc_removed>>
    /\ UNCHANGED cacheRest

\* the second pass reads s.schemas[k].lastUsedUnixSeconds of its next target:
\* a nil entry makes the goroutine panic
clearExpiredExamine ==
    /\ sc_purge.pc = "locked"
    /\ sc_purge.targets # {}
    /\ LET k == CHOOSE x \in sc_purge.targets : \A y \in sc_purge.targets : x <= y
       IN  /\ sc_examined' = Append(sc_examined,
                                    [id |-> k, cached |-> sc_schemas[k].cached])
           /\ sc_purge' =
                 IF ~sc_schemas[k].cached
                 THEN [sc_purge EXCEPT !.pc = "panic"]
                 ELSE IF sc_schemas[k].last < sc_purge.targetTime
                      THEN [sc_purge EXCEPT !.pc = "delete", !.k = k]
                      ELSE [sc_purge EXCEPT !.targets = @ \ {k}]
    /\ UNCHANGED <<sc_now, sc_schemas, sc_get, sc_gets, sc_closed, sc_removed>>
    /\ UNCHANGED cacheRest

\* delete(s.schemas, k)
clearExpiredDelete ==
    /\ sc_purge.pc = "delete"
    /\ sc_removed' = Append(sc_removed,
                            [id |-> sc_purge.k, last |-> sc_schemas[sc_purge.k].last,
                             targetTime |-> sc_purge.targetTime])
    /\ sc_schemas' = [sc_schemas EXCEPT ![sc_purge.k] = NotCached]
    /\ sc_purge' = [sc_purge EXCEPT !.pc = "locked", !.targets = @ \ {sc_purge.k},
                                    !.k = 0]
    /\ UNCHANGED <<sc_now, sc_get, sc_gets, sc_closed, sc_examined>>
    /\ UNCHANGED cacheRest

\* s.cacheMut.Unlock() after the last target
clearExpiredUnlock ==
    /\ sc_purge.pc = "locked"
    /\ sc_purge.targets = {}
    /\ sc_purge' = PurgeIdle
    /\ UNCHANGED <<sc_now, sc_schemas, sc_get, sc_gets, sc_closed,
                   sc_examined, sc_removed>>
    /\ UNCHANGED cacheRest

\* getDecoder(id): the lookup under RLock
getDecoderLookup(id) ==
    /\ sc_get.pc = "idle"
    /\ ~sc_closed
    /\ ~WLocked
    /\ sc_gets < MaxGets
    /\ sc_gets' = sc_gets + 1
    /\ sc_get' = [pc |-> IF sc_schemas[id].cached THEN "store" ELSE "request",
                  id |-> id]
    /\ UNCHANGED <<sc_now, sc_schemas, sc_purge, sc_closed, sc_examined, sc_removed>>
    /\ UNCHANGED cacheRest

\* atomic.StoreInt64(&c.lastUsedUnixSeconds, time.Now().Unix()) on the entry
\* the lookup found, outside any lock; an entry deleted meanwhile is no
\* longer in the map and the store does not bring it back
getDecoderStore ==
    /\ sc_get.pc = "store"
    /\ sc_schemas' = IF sc_schemas[sc_get.id].cached
                     THEN [sc_schemas EXCEPT ![sc_get.id].last = sc_now]
                     ELSE sc_schemas
    /\ sc_get' = GetIdle
    /\ UNCHANGED <<sc_now, sc_purge, sc_gets, sc_closed, sc_examined, sc_removed>>
    /\ UNCHANGED cacheRest

\* under requestMut: the second lookup
getDecoderRecheck ==
    /\ sc_get.pc = "request"
    /\ ~WLocked
    /\ sc_get' = [sc_get EXCEPT !.pc =
                     IF sc_schemas[sc_get.id].cached THEN "store" ELSE "fetch"]
    /\ UNCHANGED <<sc_now, sc_schemas, sc_purge, sc_gets, sc_closed,
                   sc_examined, sc_removed>>
    /\ UNCHANGED cacheRest

\* the request to the registry and the parsing of its answer
getDecoderFetch(ok) ==
    /\ sc_get.pc = "fetch"
    /\ sc_get' = IF ok THEN [sc_get EXCEPT !.pc = "insert"] ELSE GetIdle
    /\ UNCHANGED <<sc_now, sc_schemas, sc_purge, sc_gets, sc_closed,
                   sc_examined, sc_removed>>
    /\ UNCHANGED cacheRest

\* s.schemas[id] = &cachedSchemaDecoder{...} under Lock
getDecoderInsert ==
    /\ sc_get.pc = "insert"
    /\ ~WLocked
    /\ sc_schemas' = [sc_schemas EXCEPT ![sc_get.id] = [cached |-> TRUE, last |-> sc_now]]
    /\ sc_get' = GetIdle
    /\ UNCHANGED <<sc_now, sc_purge, sc_gets, sc_closed, sc_examined, sc_removed>>
    /\ UNCHANGED cacheRest

\* Close(ctx): shutSig.CloseNow(), then under Lock every entry is deleted
\* unless the context is already done
CacheClose(ctxErr) ==
    /\ sc_purge.pc # "none"
    /\ ~sc_closed
    /\ ~WLocked
    /\ sc_closed' = TRUE
    /\ sc_schemas' = IF ctxErr THEN sc_schemas ELSE [k \in SchemaIds |-> NotCached]
    /\ UNCHANGED <<sc_now, sc_purge, sc_get, sc_gets, sc_examined, sc_removed>>
    /\ UNCHANGED cacheRest

CacheNext ==
    \/ CacheTick
    \/ clearExpiredFirstPass
    \/ clearExpiredLock
    \/ clearExpiredExamine
    \/ clearExpiredDelete
    \/ clearExpiredUnlock
    \/ \E id \in SchemaIds : getDecoderLookup(id)
    \/ getDecoderStore
    \/ getDecoderRecheck
    \/ \E ok \in BOOLEAN : getDecoderFetch(ok)
    \/ getDecoderInsert
    \/ \E ctxErr \in BOOLEAN : CacheClose(ctxErr)

InitCache == CacheInit /\ CoreIdle /\ FirstIdle /\ LifeIdle /\ CloseIdle /\ KafkaIdle /\ ConfIdle

SpecCache == InitCache /\ [][CacheNext]_vars

(* ----------------- ProcessorsProvider.getConfs -------------------------- *)
EnvVarNames == 1..MaxEnvVars
EnvValues == {"a", "b"}
\* a variable that is not set in the process, or not named in a map
Unset == "unset"
\* the process environments, and the environment maps of a test case
Environments == [EnvVarNames -> EnvValues \cup {Unset}]
Keys(overrides) == {k \in EnvVarNames : overrides[k] # Unset}

\* `for k, v := range vars { os.Setenv(k, v) }`
Setenv(env, overrides) ==
    [k \in EnvVarNames |-> IF k \in Keys(overrides) THEN overrides[k] ELSE env[k]]

\* the ogEnvVars of setEnvironment: what os.LookupEnv finds for each key
LookupEnv(env, overrides) ==
    [k \in EnvVarNames |-> IF k \in Keys(overrides) THEN env[k] ELSE Unset]

\* the function setEnvironment returns: os.Setenv(k, og) for a key that had a
\* value, os.Unsetenv(k) for one that had none
Cleanup(env, overrides, og) ==
    [k \in EnvVarNames |-> IF k \in Keys(overrides) THEN og[k] ELSE env[k]]

\* getConfs from its own loop over environment to the deferred cleanupEnv():
\* the loop sets the variables, setEnvironment then records what it finds,
\* sets them again, and its cleanup runs on return
EnvAfterGetConfs(env, overrides) ==
    LET set == Setenv(env, overrides)
        og == LookupEnv(set, overrides)
    IN  Cleanup(Setenv(set, overrides), overrides, og)

\* the outcomes of a getConfs call that missed the cache
ConfErrs == {Nil, "pointer", "parse"}

\* NewProcessorsProvider in a process with any environment
ConfInit ==
    /\ gc_env \in Environments
    /\ gc_cached = {}
    /\ gc_last = <<>>
    /\ gc_calls = 0

\* getConfs(jsonPtr, environment) for one jsonPtr; err is what resolving the
\* pointer and parsing the files come to
getConfs(environment, err) ==
    /\ gc_env # <<>>
    /\ gc_calls < MaxConfCalls
    /\ gc_calls' = gc_calls + 1
    /\ IF environment \in gc_cached
       THEN /\ gc_last' = <<[environment |-> environment, before |-> gc_env,
                             miss |-> FALSE, set |-> FALSE, err |-> Nil]>>
            /\ UNCHANGED <<gc_env, gc_cached>>
       ELSE IF err = "pointer"
       THEN /\ gc_last' = <<[environment |-> environment, before |-> gc_env,
                             miss |-> TRUE, set |-> FALSE, err |-> err]>>
            /\ UNCHANGED <<gc_env, gc_cached>>
       ELSE /\ gc_env' = EnvAfterGetConfs(gc_env, environment)
            /\ gc_cached' = IF err = Nil THEN gc_cached \cup {environment}
                            ELSE gc_cached
            /\ gc_last' = <<[environment |-> environment, before |-> gc_env,
                             miss |-> TRUE, set |-> TRUE, err |-> err]>>
    /\ UNCHANGED confRest

ConfNext ==
    \E environment \in Environments, err \in ConfErrs : getConfs(environment, err)

InitConf ==
    ConfInit /\ CoreIdle /\ FirstIdle /\ LifeIdle /\ CloseIdle /\ KafkaIdle /\ CacheIdle

SpecConf == InitConf /\ [][ConfNext]_vars

(* ------------------------------ claims --------------------------------- *)
\* batch ids of a Write history with consecutive repeats of a batch dropped
RECURSIVE Collapse(_)
Collapse(ws) ==
    IF ws = <<>> THEN <<>>
    ELSE IF Len(ws) = 1 THEN <<ws[1][1]>>
    ELSE IF ws[1][1] = ws[2][1] THEN Collapse(Tail(ws))
    ELSE <<ws[1][1]>> \o Collapse(Tail(ws))

\* C1: no Transaction a sync sink (Writer or LineWriter) received is resolved
\* twice: at most one response is ever sent on its response channel
C1_AtMostOneResponse ==
    \A b \in Batches : responses[b] <= 1

\* C1 witness: a Writer resolved batch 1 after a failure and a retry, took
\* batch 2, and CloseAsync has closed its closeChan
C1_Witness ==
    /\ sinkType = "Writer"
    /\ responses[1] = 1
    /\ w_ts = 2
    /\ faults > 0
    /\ w_closeChan

\* C2 (as claimed): once the Writer reports closed, every Transaction it
\* received has had a response sent on its response channel
C2_ReceivedAreResolved ==
    (sinkType = "Writer" /\ WriterWaitForClose = Nil)
        => \A b \in received : responses[b] >= 1

\* C3 (as claimed): when the Reader's transaction channel is closed and
\* WaitForClose returns nil, every Transaction it emitted has had its
\* resolution received and handed to the adapter's Acknowledge
C3_ClosedImpliesDrained ==
    (r_transClosed /\ ReaderWaitForClose = Nil)
        => \A i \in DOMAIN emitted :
              \E k \in DOMAIN acks : acks[k][1] = emitted[i]

\* the results of the Write calls made for batch b, in order
WriteResultsOf(b) ==
    SelectSeq(writes, LAMBDA w : w[1] = b)

\* C4: the source adapter's Acknowledge gets a nil error for a batch only
\* after a sink Write of that batch returned nil: a batch whose Write failed
\* or was never attempted is never positively acknowledged
C4_AckOnlyAfterWrite ==
    \A k \in DOMAIN acks :
        acks[k][2] = Nil =>
            /\ WriteResultsOf(acks[k][1]) # <<>>
            /\ WriteResultsOf(acks[k][1])[Len(WriteResultsOf(acks[k][1]))][2] = Nil

\* C4 witness: a Writer's first Write of batch 1 was not connected, the
\* retried Write returned nil and batch 1 was then acknowledged with nil
C4_Witness ==
    /\ sinkType = "Writer"
    /\ Len(writes) >= 2
    /\ writes[1] = <<1, ErrNotConnected>>
    /\ \E k \in DOMAIN acks : acks[k] = <<1, Nil>>

\* C5: the sink adapter's Write calls follow the order in which Read returned
\* the batches (batch ids number the successful Reads): an earlier batch is
\* never written after a later one, and every Write carries the batch of the
\* Transaction emitted last, whatever reconnects and retries happen
C5_OrderPreserved ==
    /\ \A i, j \in DOMAIN writes : i < j => writes[i][1] <= writes[j][1]
    /\ \A i \in DOMAIN emitted : emitted[i] = i
    /\ (writes # <<>> /\ wpc # "write")
          => writes[Len(writes)][1] = emitted[Len(emitted)]
    /\ Len(Collapse(writes)) <= Len(emitted)

\* C5 witness: a Writer wrote batch 1, then batch 2 after a retried Write,
\* with a failed Read in between
C5_Witness ==
    /\ sinkType = "Writer"
    /\ Len(writes) >= 3
    /\ writes[1][1] = 1
    /\ writes[Len(writes)][1] = 2
    /\ writes[Len(writes) - 1] = <<2, ErrNotConnected>>

\* the parts of the first n outbound batches, in emission order
RECURSIVE EmittedParts(_)
EmittedParts(n) ==
    IF n = 0 THEN <<>> ELSE EmittedParts(n - 1) \o b_out[n].parts

\* what the fan-out must deliver to Transaction t of an outbound batch resolved
\* with res: nil for nil, the error for a plain error, and for a BatchError the
\* error of a failed index t owns, or nil when it owns none
FanOutExpected(parts, t, res, got) ==
    IF res.kind = "nil" THEN got = Nil
    ELSE IF res.kind = "err" THEN got = res.err
    ELSE IF \E i \in DOMAIN res.failed : parts[i][1] = t
    THEN \E i \in DOMAIN res.failed : parts[i][1] = t /\ got = res.failed[i]
    ELSE got = Nil

\* C6: when an outbound batched Transaction is resolved, every original
\* Transaction combined into it is resolved with nil for nil, with the same
\* error for a plain error, and for a BatchError with the error of the failed
\* index it owns, all other constituents with nil
C6_FanOut ==
    [][(b_last.out # 0 /\ ~b_out[b_last.out].resolved
          /\ b_out'[b_last.out].resolved)
        => \A i \in DOMAIN b_out[b_last.out].trans :
              /\ Len(b_resolved'[b_out[b_last.out].trans[i]])
                   = Len(b_resolved[b_out[b_last.out].trans[i]]) + 1
              /\ FanOutExpected(
                   b_out[b_last.out].parts, b_out[b_last.out].trans[i],
                   b_last.res,
                   b_resolved'[b_out[b_last.out].trans[i]]
                       [Len(b_resolved'[b_out[b_last.out].trans[i]])])]_vars

\* C6 witness: Transactions 1, 2, 3 went out as one batch, a BatchError marked
\* index 2 as failed, Transaction 2 got that error and the others nil
C6_Witness ==
    /\ Len(b_out) >= 1
    /\ b_out[1].trans = <<1, 2, 3>>
    /\ b_resolved = << <<Nil>>, <<IndexErr(2)>>, <<Nil>> >>

\* C7: with a count trigger N and single-part Transactions an outbound batch is
\* emitted exactly when N parts have accumulated, it holds exactly those N parts
\* in arrival order, and every inbound part is in exactly one outbound batch or
\* still pending
C7_CountTrigger ==
    (b_count > 0 /\ ~b_period /\ \A t \in DOMAIN b_in : b_in[t] = 1)
        => /\ b_pc = "run" => Len(b_pending) < b_count
           /\ b_pc = "flush" => Len(b_pending) = b_count
           /\ \A j \in DOMAIN b_out :
                 ~b_out[j].final => Len(b_out[j].parts) = b_count
           /\ EmittedParts(Len(b_out)) \o b_pending = ArrivedParts(Len(b_in))

\* C7 witness: N single-part Transactions went out as one batch in arrival
\* order and the next Transaction is pending alone
C7_Witness ==
    /\ b_count = MaxCount
    /\ ~b_period
    /\ \A t \in DOMAIN b_in : b_in[t] = 1
    /\ Len(b_out) = 1
    /\ b_out[1].parts = [k \in 1..MaxCount |-> <<k, 1>>]
    /\ b_pending = << <<MaxCount + 1, 1>> >>

\* C8: a Batcher that reports closed holds no pending part: a partial batch
\* pending at shutdown went out as a final outbound Transaction, no buffered
\* part is lost
C8_ShutdownFlushes ==
    BatcherWaitForClose = Nil
        => /\ b_pending = <<>>
           /\ EmittedParts(Len(b_out)) = ArrivedParts(Len(b_in))

\* C8 witness: a closed Batcher whose last emission was a final batch smaller
\* than the count trigger
C8_Witness ==
    /\ b_pc = "closed"
    /\ b_count > 0
    /\ ~b_period
    /\ b_out # <<>>
    /\ b_out[Len(b_out)].final
    /\ Len(b_out[Len(b_out)].parts) < b_count

\* C9: with a period trigger a non-empty pending batch is eventually emitted
\* even if no further Transaction arrives, and the batch that leaves holds the
\* pending parts unchanged and in order
C9_PeriodFlush ==
    /\ [][(b_pending # <<>> /\ b_pending' = <<>>)
            => /\ Len(b_out') = Len(b_out) + 1
               /\ b_out'[Len(b_out')].parts = b_pending]_vars
    /\ (b_period /\ b_pending # <<>>) ~> (b_pending = <<>>)

\* C9 witness: a period-only Batcher emitted the one Transaction it was fed,
\* with no further input and no shutdown
C9_Witness ==
    /\ b_period
    /\ b_count = 0
    /\ Len(b_in) = 1
    /\ ~b_inClosed
    /\ ~b_closeReq
    /\ b_pc = "run"
    /\ Len(b_out) = 1
    /\ b_out[1].parts = PartsOf(1, b_in[1])

C11_AckEachResolution ==
    \A i \in DOMAIN calls :
        /\ calls[i].op = "Resolved"
             => /\ i < Len(calls)
                /\ calls[i + 1] = Call("Ack", calls[i].arg, calls[i].err, FALSE)
        /\ calls[i].op = "Ack"
             => /\ i > 1
                /\ calls[i - 1].op = "Resolved"
                /\ calls[i - 1].arg = calls[i].arg
                /\ calls[i - 1].err = calls[i].err

\* the Transactions emitted within the first n steps of the Reader and not
\* resolved within them
Unresolved(n) ==
    {i \in 1..n :
        /\ calls[i].op = "Emit"
        /\ ~\E j \in (i + 1)..n :
              calls[j].op = "Resolved" /\ calls[j].arg = calls[i].arg}

\* the Reader's log from step k on, read with `pending` the Transaction
\* emitted and not yet resolved (NoMsg for none): a Read or an Emit is found
\* only while none is pending
RECURSIVE OneAtATimeFrom(_, _)
OneAtATimeFrom(k, pending) ==
    IF k > Len(calls) THEN TRUE
    ELSE IF calls[k].op \in {"Read", "Emit"}
    THEN /\ pending = NoMsg
         /\ OneAtATimeFrom(k + 1, IF calls[k].op = "Emit" THEN calls[k].arg ELSE NoMsg)
    ELSE IF calls[k].op = "Resolved" /\ calls[k].arg = pending
    THEN OneAtATimeFrom(k + 1, NoMsg)
    ELSE OneAtATimeFrom(k + 1, pending)

\* C12: the Reader has at most one emitted Transaction unresolved at any time
\* and calls Read, or emits again, only when every Transaction it emitted
\* before has been resolved
C12_OneAtATime == OneAtATimeFrom(1, NoMsg)

\* C12 witness: the Reader emitted a batch, has read again after its
\* resolution and now awaits the resolution of a second batch
C12_Witness ==
    /\ rpc = "await"
    /\ Len(emitted) = 2
    /\ Cardinality(Unresolved(Len(calls))) = 1
    /\ \E k \in DOMAIN calls :
          calls[k].op = "Read" /\ \E i \in 1..(k - 1) : calls[i].op = "Emit"

\* C13: once a Read has returned ErrNotConnected the Reader is marked
\* disconnected, and every later Read comes after a Connect that returned nil
\* in between
C13_ReconnectBeforeRead ==
    /\ (calls # <<>> /\ calls[Len(calls)].op = "Read"
          /\ calls[Len(calls)].err = ErrNotConnected) => r_connected = 0
    /\ \A i \in DOMAIN calls :
          (calls[i].op = "Read" /\ calls[i].err = ErrNotConnected)
            => \A k \in (i + 1)..Len(calls) :
                  calls[k].op = "Read"
                    => \E j \in (i + 1)..(k - 1) :
                          calls[j].op = "Connect" /\ calls[j].err = Nil

\* C13 witness: a Read returned ErrNotConnected, a Connect failed, a later
\* Connect returned nil and the Reader has called Read again
C13_Witness ==
    \E i \in DOMAIN calls :
        /\ calls[i].op = "Read" /\ calls[i].err = ErrNotConnected
        /\ i + 4 <= Len(calls)
        /\ calls[i + 1].op = "Connect" /\ calls[i + 1].err = ErrOther
        /\ calls[i + 2].op = "Retry"
        /\ calls[i + 3].op = "Connect" /\ calls[i + 3].err = Nil
        /\ calls[i + 4].op = "Read"

\* C14: after a Read that returned ErrTimeout the next thing the Reader does
\* is neither a Connect nor a wait on the Throttle, and no wait on the
\* Throttle comes right after such a Read
C14_TimeoutRetriesAtOnce ==
    /\ \A i \in DOMAIN calls :
          (calls[i].op = "Read" /\ calls[i].err = ErrTimeout /\ i < Len(calls))
            => calls[i + 1].op \notin {"Connect", "Retry"}
    /\ \A i \in DOMAIN calls :
          (calls[i].op = "Retry" /\ i > 1 /\ calls[i - 1].op = "Read")
            => calls[i - 1].err # ErrTimeout

C16_OnlyClosedEndsLoop ==
    /\ (rpc \in {"defer", "done"} /\ r_closer = "idle") => srcState = "closed"
    /\ (sinkType = "Writer" /\ wpc \in {"defer", "done"} /\ w_closer = "idle")
         => (snkState = "closed" \/ r_transClosed)

\* C16 witness: every failure the adapters can be made to produce has
\* happened, the last of them a failed Write, no shutdown was requested, and
\* both loops are still running
C16_Witness ==
    /\ faults = MaxFaults
    /\ r_closer = "idle"
    /\ w_closer = "idle"
    /\ sinkType = "Writer"
    /\ rpc = "await"
    /\ wpc = "throt_write"
    /\ w_err = ErrOther
    /\ srcState = "open"
    /\ snkState = "open"
    /\ Len(emitted) = MaxBatches

\* C17: a failed Connect is followed by a wait on the Throttle before the next
\* Connect, so N failures and a success are N+1 Connect calls with a wait
\* between consecutive ones; the waits of consecutive failed attempts do not
\* shrink; and the Throttle is reset by a successful Connect, so the first
\* wait after a Connect that returned nil is at the minimum level
C17_ReconnectBackoff ==
    /\ \A i \in DOMAIN calls :
          (calls[i].op = "Connect" /\ calls[i].err \notin {Nil, ErrTypeClosed}
             /\ i < Len(calls))
            => /\ calls[i + 1].op = "Retry"
               /\ (i + 2 <= Len(calls) /\ calls[i + 1].err = Nil
                     /\ r_closer = "idle")
                    => calls[i + 2].op = "Connect"
    /\ \A i \in DOMAIN calls :
          (calls[i].op = "Retry" /\ i + 2 <= Len(calls)
             /\ calls[i + 1].op = "Connect" /\ calls[i + 2].op = "Retry")
            => calls[i].arg <= calls[i + 2].arg
    /\ \A j \in DOMAIN calls :
          (calls[j].op = "Connect" /\ calls[j].err = Nil)
            => \A i \in (j + 1)..Len(calls) :
                  (calls[i].op = "Retry"
                     /\ \A k \in (j + 1)..(i - 1) : calls[k].op # "Retry")
                    => calls[i].arg = 0

\* C18: after a Write that returned ErrNotConnected the next Write is a retry
\* of the same batch, the Writer takes no other Transaction before it, and the
\* Transaction is resolved only once its last Write has returned something
\* other than ErrNotConnected
C18_RetrySameWrite ==
    sinkType = "Writer"
      => /\ \A k \in DOMAIN writes :
               (writes[k][2] = ErrNotConnected /\ k < Len(writes))
                 => writes[k + 1][1] = writes[k][1]
         /\ (writes # <<>> /\ writes[Len(writes)][2] = ErrNotConnected)
               => /\ responses[writes[Len(writes)][1]] = 0
                  /\ \A b \in received : b <= writes[Len(writes)][1]

\* C18 as amended: after a Write that returned ErrNotConnected the next Write
\* is a retry of the same batch and the Writer takes no other Transaction
\* before it; as long as CloseAsync has not been called on the Writer, the
\* Transaction is resolved only once its last Write has returned something
\* other than ErrNotConnected
C18_RetryWhileActive ==
    sinkType = "Writer"
      => /\ \A k \in DOMAIN writes :
               (writes[k][2] = ErrNotConnected /\ k < Len(writes))
                 => writes[k + 1][1] = writes[k][1]
         /\ (writes # <<>> /\ writes[Len(writes)][2] = ErrNotConnected)
               => /\ w_closer = "idle" => responses[writes[Len(writes)][1]] = 0
                  /\ \A b \in received : b <= writes[Len(writes)][1]

\* C18 witness: the Write of batch 1 returned ErrNotConnected, the Writer
\* reconnected, the retried Write of batch 1 returned nil and only then was
\* the Transaction resolved, with no CloseAsync
C18_Witness ==
    /\ sinkType = "Writer"
    /\ w_closer = "idle"
    /\ writes = << <<1, ErrNotConnected>>, <<1, Nil>> >>
    /\ responses[1] = 1
    /\ received = {1}

\* the result of the last Write of batch b, "none" when it was never written
LastWriteOf(b) ==
    IF WriteResultsOf(b) = <<>> THEN "none"
    ELSE WriteResultsOf(b)[Len(WriteResultsOf(b))][2]

\* C19: a Transaction whose last Write returned nil or an error other than
\* ErrNotConnected is resolved, exactly once and with that result, by the time
\* the sink is past that Write; and the sink has received a Transaction only
\* if every Transaction it received before has been resolved
C19_ResolvedWithWriteResult ==
    /\ \A b \in received :
          (LastWriteOf(b) \notin {"none", ErrNotConnected}
             /\ (wpc \in {"recv", "defer", "done"} \/ w_ts # b))
            => /\ responses[b] = 1
               /\ \E k \in DOMAIN acks : acks[k] = <<b, LastWriteOf(b)>>
    /\ \A b \in received : \A a \in received : a < b => responses[a] >= 1

C21_CloseAsyncStopsNewWork ==
    [][/\ r_closer = "returned" => emitted' = emitted
       /\ (sinkType = "Writer" /\ w_closer = "returned")
             => (received' = received /\ writes' = writes)]_vars

\* C22: once CloseAsync has been called on a Reader, or on a Writer whose loop
\* was started, the loop eventually exits and WaitForClose eventually returns
\* nil, whichever wait the loop was in and however the adapter's close ends.
C22_CloseAsyncTerminates ==
    /\ (r_closer # "idle") ~> (ReaderWaitForClose = Nil)
    /\ (sinkType = "Writer" /\ w_started /\ w_closer # "idle")
          ~> (WriterWaitForClose = Nil)

\* C23: in an output wrapped by WrapWithPipelines with p1..pk, a Transaction
\* is processed by p1 first, then p2, ..., then pk: whatever pipeline pj holds
\* has been through p1..pj in that order, and the sink only receives
\* Transactions that went through p1..pk.
C23_DeclaredOrder ==
    /\ \A q \in DOMAIN wp_hold :
          wp_hold[q] # NoTx => wp_hold[q].trail = [j \in 1..q |-> j]
    /\ \A n \in DOMAIN wp_sunk : wp_sunk[n].trail = [j \in 1..wp_k |-> j]

\* the sink of an output wrapped with the most pipelines received everything
C23_Witness ==
    /\ wp_k = MaxPipes
    /\ Len(wp_sunk) = MaxWrapTx

\* C24: when a processor has failed on a message the message is not dropped:
\* it is still in the pipeline with the content of every part unchanged and a
\* failure flag set in its metadata, and it was not acknowledged to the source.
C24_FailedNotDropped ==
    pr_last.failed =>
        /\ pr_live
        /\ pr_res = "none"
        /\ Len(pr_msg) = Len(pr_last.before)
        /\ \A i \in DOMAIN pr_msg : pr_msg[i].data = pr_last.before[i].data
        /\ \E i \in DOMAIN pr_msg : GetFail(pr_msg[i]) # ""

\* each of the two messages reads the bytes and the metadata last given to it
Isolated ==
    \A h \in Handles :
        /\ m_bytes[h] = m_want[h].bytes
        /\ m_meta[h] = m_want[h].meta

\* C25 as stated: after a message is copied, any sequence of byte or metadata
\* mutations applied to one of the two leaves the other unchanged.
C25_CopyOnWrite == m_copied # "no" => Isolated

\* C25 amended: mutations made through SetBytes, SetStructured and MetaSet
\* leave the other message unchanged after any copy, and after a DeepCopy so
\* do writes into the byte slice.
C25_CopyOnWriteThroughSetters ==
    (m_copied = "DeepCopy" \/ (m_copied = "Copy" /\ ~m_raw)) => Isolated

\* a deep copy whose bytes were written in place while the original was
\* given other bytes and other metadata
C25_Witness ==
    /\ m_copied = "DeepCopy"
    /\ m_raw
    /\ m_bytes[1] # m_bytes[2]
    /\ m_meta[1] # m_meta[2]

\* C26: after any sequence of SetBytes and SetStructured calls the structured
\* view read back is that of the most recent write: the value of the last
\* SetStructured, or what the bytes of the last SetBytes parse to.
C26_StructuredFollowsLastWrite ==
    ~m_raw =>
        \A h \in Live :
            AsStructured(h) =
                IF m_last[h].kind = "structured"
                THEN [ok |-> TRUE, val |-> m_last[h].val]
                ELSE ParseJSON(m_last[h].bytes)

\* bytes that are no document were set over a structured value, and reading
\* the structured view fails
C26_Witness ==
    \E h \in Live :
        /\ ~m_raw
        /\ m_last[h].kind = "bytes"
        /\ m_last[h].over = "structured"
        /\ ~AsStructured(h).ok

\* C27: an environment returned by NewEnvironment, WithoutMethods or
\* WithoutFunctions is independent of its source: a registration on one
\* environment never changes which functions or methods any other accepts.
C27_EnvironmentIndependent ==
    [][\A e \in DOMAIN e_envs : e # e_act' => Accepts(e)' = Accepts(e)]_vars

FailedOf(j, t) ==
    IndicesOf(b_out[j].parts, t) \cap DOMAIN b_out[j].res.failed

\* C29: when an outbound batch was resolved with a BatchError, every
\* constituent Transaction has been resolved exactly once, and a Transaction
\* that owns several of the failed indices got the error of one of them.
C29_SeveralIndicesOneResolution ==
    \A j \in DOMAIN b_out :
        (b_out[j].resolved /\ b_out[j].res.kind = "batch") =>
            \A i \in DOMAIN b_out[j].trans :
                /\ Len(b_resolved[b_out[j].trans[i]]) = 1
                /\ Cardinality(FailedOf(j, b_out[j].trans[i])) >= 2 =>
                      \E k \in FailedOf(j, b_out[j].trans[i]) :
                          b_resolved[b_out[j].trans[i]][1] = b_out[j].res.failed[k]

\* a BatchError marked both parts of one Transaction of an outbound batch that
\* also holds another Transaction, and the batch has been fanned out
C29_Witness ==
    \E j \in DOMAIN b_out :
        /\ b_out[j].resolved /\ b_out[j].res.kind = "batch"
        /\ Len(b_out[j].trans) >= 2
        /\ \E i \in DOMAIN b_out[j].trans :
              Cardinality(FailedOf(j, b_out[j].trans[i])) >= 2

\* the step before step k of the Reader's log that called Connect, 0 if none
PrevConnect(k) ==
    IF \E q \in 1..(k - 1) : calls[q].op = "Connect"
    THEN CHOOSE q \in 1..(k - 1) :
            /\ calls[q].op = "Connect"
            /\ \A i \in (q + 1)..(k - 1) : calls[i].op # "Connect"
    ELSE 0

\* steps q < k both belong to one run of the reconnect loop: q comes after
\* some Read, and no Read between them returned anything but not-connected
SameReconnect(q, k) ==
    /\ \E i \in 1..(q - 1) : calls[i].op = "Read"
    /\ \A i \in (q + 1)..(k - 1) :
          calls[i].op = "Read" => calls[i].err = ErrNotConnected

\* C30: in the Reader's reconnect loop every Connect attempt after the first
\* comes after a Throttle Retry made since the previous attempt, also when
\* that previous Connect succeeded and the Read after it reported
\* not-connected again.
C30_ReconnectBacksOff ==
    \A k \in DOMAIN calls :
        (/\ calls[k].op = "Connect"
         /\ PrevConnect(k) # 0
         /\ SameReconnect(PrevConnect(k), k))
            => \E i \in (PrevConnect(k) + 1)..(k - 1) : calls[i].op = "Retry"

\* the CloseAsync calls that have returned
ReturnedCloses == {i \in DOMAIN lc_rets : lc_rets[i].op = "CloseAsync"}

\* C31: however many CloseAsync calls are made on a Reader, Writer or
\* LineWriter, one after another or at the same time, before its loop started
\* or after it returned, closeChan is closed at most once and the adapter's
\* CloseAsync is called at most once; once every call made has returned,
\* exactly once.
C31_ClosedOnce ==
    /\ lc_closes <= 1
    /\ lc_adapter <= 1
    /\ (ReturnedCloses # {} /\ \A c \in Callers : lc_call[c].op # "CloseAsync")
           => /\ lc_closes = 1
              /\ lc_adapter = IF lc_kind = "LineWriter" THEN 0 ELSE 1

\* several CloseAsync calls have returned, the last of them after the loop
\* had returned on its own
C31_Witness ==
    /\ Cardinality(ReturnedCloses) >= 2
    /\ lc_loop = "exited"
    /\ lc_closes = 1
    /\ lc_adapter = 1

\* C32: a Writer or LineWriter starts at most one loop and assigns its
\* transactions field at most once, whatever channels its Consume calls pass
\* and however the calls overlap.
C32_OneLoop ==
    lc_kind \in {"Writer", "LineWriter"} =>
        /\ lc_loops <= 1
        /\ Len(lc_assigned) <= 1

\* C33: once CloseAsync was called on the Reader, the sink that was started on
\* its transactions reports closed without a CloseAsync of its own (provided the
\* source adapter's shutdown completes, so that the Reader closes its channel).
C33_ReaderShutdownClosesSink ==
    (r_closer # "idle" /\ w_started)
        ~> (w_closedChan \/ w_closer # "idle" \/ srcState = "failed")

\* C34: when a layer of a wrapped output calls its out's CloseAsync, its own
\* pipeline has reported closed or the maximum shutdown wait has run out, and
\* WaitForClose on the wrapper returns nil only when the output has closed.
C34_OutClosedAfterPipe ==
    /\ \A j \in DOMAIN wc_at :
          wc_at[j].called => (wc_at[j].pipe = "closed" \/ wc_at[j].elapsed)
    /\ wc_out = "closing" => wc_at[wc_k].called
    /\ \A i \in DOMAIN wc_wait :
          wc_wait[i].err = Nil => wc_wait[i].out = "closed"

\* the output was asked to close after a wait that ran out on one layer and a
\* pipeline that closed on another, and WaitForClose has returned nil
C34_Witness ==
    /\ wc_k >= 2
    /\ wc_at[wc_k].called
    /\ \E j \in DOMAIN wc_at : wc_at[j].called /\ wc_at[j].elapsed
    /\ \E j \in DOMAIN wc_at : wc_at[j].called /\ wc_at[j].pipe = "closed"
    /\ \E i \in DOMAIN wc_wait : wc_wait[i].err = Nil
    /\ \E i \in DOMAIN wc_wait : wc_wait[i].err = ErrTimeout

\* C35: the offset marked as consumed on a partition never reaches the offset
\* of a message of that partition that was acknowledged with an error.
C35_NackedNotMarked ==
    \A i \in DOMAIN k_msgs :
        k_msgs[i].res = "nack" => k_marked[k_msgs[i].part] < k_msgs[i].offset

\* C36: every id the second pass of clearExpired examines is still in the
\* cache, whatever Close and getDecoder did since the first pass.
C36_ExaminedStillCached ==
    \A i \in DOMAIN sc_examined : sc_examined[i].cached

\* C37: clearExpired deletes an entry only if, at the moment of the delete,
\* its last use is before the targetTime of that purge.
C37_RemovedWereStale ==
    \A i \in DOMAIN sc_removed : sc_removed[i].last < sc_removed[i].targetTime

\* C38: after a getConfs call that missed the cache has returned, with or
\* without an error, every variable named in its environment map is as it was
\* before the call: the same value, or unset.
C38_EnvironmentRestored ==
    \A i \in DOMAIN gc_last :
        gc_last[i].miss =>
            \A k \in Keys(gc_last[i].environment) : gc_env[k] = gc_last[i].before[k]

====
